---- MODULE Spec2Model ----
(***************************************************************************)
(* gitnoob: the stash-guarded workflows (checkout, update, update-all,     *)
(* merge-from) as a state machine over one working copy.  One behaviour is *)
(* one command invocation; every action is one step of a command's         *)
(* execute() between two awaited git calls.                                *)
(***************************************************************************)
EXTENDS Naturals, Sequences, FiniteSets, TLC

VARIABLES
    cmd,          \* which command index.ts dispatched to
    useRebase,    \* the parsed strategy flag
    pc,           \* position inside execute()
    wt,           \* working tree: [unc, stg, unt]
    stashList,    \* git's stash list, newest first (index 1 is stash@{0})
    head,         \* the checked-out branch
    inProgress,   \* "none" | "rebase" | "merge": a stopped rebase/merge
    currentBranch,\* local: branch at start of the command
    targetBranch, \* local: checkout target / merge-from source
    status,       \* local: the GitStatus read by the guard
    stashMessage, \* local: <<>> is null
    stashRef,     \* local (checkout, first definition): "" is null
    stashCountBefore, \* local (checkout, first definition)
    behindCount,  \* local: the last behind-count read
    todo,         \* local (update-all): branches still to sweep
    results,      \* local (update-all): failed / updated / upToDate / skipped
    calls,        \* every mutating git call issued so far, in order
    logs,         \* what the command told the user
    outcome,      \* "running" | "success" | "failure" | "exit1"
    manual,       \* requiresManualResolution of the returned GitResult
    ext,          \* number of save-points pushed by other means
    force,        \* prune: the parsed --force flag
    includeOrphaned, \* prune: the parsed --include-orphaned flag
    refs,         \* local branches: name -> configured upstream ("" is none)
    cached,       \* remote-tracking branches refs/remotes/origin/*, as fetched
    live,         \* the heads the remote lists right now
    analysis,     \* prune: the object analyzeBranches returned
    clearStashes, \* reset: the parsed --clear-stashes flag
    inflight      \* the git processes spawned and not yet exited

vars == <<cmd, useRebase, pc, wt, stashList, head, inProgress, currentBranch,
          targetBranch, status, stashMessage, stashRef, stashCountBefore,
          behindCount, todo, results, calls, logs, outcome, manual, ext,
          force, includeOrphaned, refs, cached, live, analysis, clearStashes,
          inflight>>

\* ------------------------------------------------------------------ bounds
MaxPre == 1          \* save-points already in the list when the command starts
MaxExt == 1          \* save-points pushed by other means during the command
MaxStashes == 3      \* save-points in the list when reset starts
MaxCalls == 3        \* facade calls of one run of the call discipline

Branches == <<"main", "feat">>
BranchSet == {Branches[i] : i \in 1..Len(Branches)}
Cmds == {"checkout", "checkout2", "update", "updateAll", "mergeFrom"}
Guarded == {"checkout", "checkout2", "update", "updateAll", "mergeFrom"}

\* ------------------------------------------------------------------ text
\* Program output is kept as a sequence of tokens; String.includes is
\* containment of a contiguous run of tokens.
includes(line, m) ==
    \E i \in 0..(Len(line) - Len(m)) :
        \A j \in 1..Len(m) : line[i + j] = m[j]

\* the words the conflict classifiers look for
hasMarker(text) == includes(text, <<"conflict">>) \/ includes(text, <<"CONFLICT">>)

\* stash@{n}, as printed by `git stash list` and accepted by `git stash pop`
RefTok == <<"stash@{0}", "stash@{1}", "stash@{2}", "stash@{3}", "stash@{4}">>
RefIndex(ref) ==
    IF \E i \in 1..Len(RefTok) : RefTok[i] = ref
    THEN CHOOSE i \in 1..Len(RefTok) : RefTok[i] = ref
    ELSE 0

\* one line of `git stash list`: "stash@{i}: On <branch>: <message>"
StashLine(i, e) == <<RefTok[i], "On", e.branch>> \o e.msg

\* line.match(/^(stash@\{\d+\})/)?.[1] || null
matchRef(line) ==
    IF Len(line) > 0 /\ RefIndex(line[1]) > 0 THEN line[1] ELSE ""

\* ------------------------------------------------------------------ git
\* What a git process can answer.  out/err are token sequences.
Ok == [success |-> TRUE, out |-> <<>>, err |-> <<>>]
FailPlain == [success |-> FALSE, out |-> <<>>, err |-> <<"fatal">>]
FailConflictErr == [success |-> FALSE, out |-> <<"CONFLICT">>, err |-> <<"error", "conflict">>]
FailConflictOut == [success |-> FALSE, out |-> <<"CONFLICT">>, err |-> <<>>]
FailConflictOutErr == [success |-> FALSE, out |-> <<"CONFLICT">>, err |-> <<"error">>]
Conflicts == {FailConflictErr, FailConflictOut, FailConflictOutErr}
MutResults == {Ok, FailPlain} \cup Conflicts
IsConflict(r) == r \in Conflicts

\* GitOperations.getStatus
getStatus(tree) ==
    [hasUncommittedChanges |-> tree.unc,
     hasStagedChanges |-> tree.stg,
     hasUntrackedFiles |-> tree.unt,
     hasChanges |-> tree.unc \/ tree.stg \/ tree.unt]

Clean == [unc |-> FALSE, stg |-> FALSE, unt |-> FALSE]
Trees == [unc : BOOLEAN, stg : BOOLEAN, unt : BOOLEAN]

\* what `git stash push [-u]` would put into a save-point
Covered(tree, untracked) ==
    [unc |-> tree.unc, stg |-> tree.stg, unt |-> tree.unt /\ untracked]
Entry(branch, msg, content, own) ==
    [branch |-> branch, msg |-> msg, content |-> content, own |-> own]

\* `git stash push -m msg [--include-untracked]` answering `ok`: with nothing
\* to save git prints "No local changes to save" and exits 0 without an entry.
PushList(list, tree, branch, msg, untracked, ok) ==
    IF ok /\ Covered(tree, untracked) # Clean
    THEN <<Entry(branch, msg, Covered(tree, untracked), TRUE)>> \o list
    ELSE list
PushTree(tree, untracked, ok) ==
    IF ok /\ Covered(tree, untracked) # Clean
    THEN [unc |-> FALSE, stg |-> FALSE, unt |-> tree.unt /\ ~untracked]
    ELSE tree

\* `git stash pop <ref>` answering r: the entry leaves the list only on success
PopValid(list, ref) == RefIndex(ref) \in 1..Len(list)
PopList(list, ref, r) ==
    IF r.success /\ PopValid(list, ref)
    THEN [i \in 1..(Len(list) - 1) |->
             IF i < RefIndex(ref) THEN list[i] ELSE list[i + 1]]
    ELSE list
PopTree(list, tree, ref, r) ==
    IF r.success /\ PopValid(list, ref)
    THEN LET c == list[RefIndex(ref)].content
         IN [unc |-> tree.unc \/ c.unc, stg |-> tree.stg \/ c.stg,
             unt |-> tree.unt \/ c.unt]
    ELSE IF IsConflict(r) THEN [tree EXCEPT !.unc = TRUE]
    ELSE tree
\* the answers `git stash pop <ref>` can give for this list
PopResults(list, ref) ==
    IF PopValid(list, ref) THEN MutResults ELSE {FailPlain}

\* GitOperations.findStash, given the answer of `git stash list`
RECURSIVE findFrom(_, _, _)
findFrom(list, message, i) ==
    IF i > Len(list) THEN ""
    ELSE IF includes(StashLine(i, list[i]), message)
         THEN matchRef(StashLine(i, list[i]))
         ELSE findFrom(list, message, i + 1)
findStash(list, message, listOk) ==
    IF ~listOk THEN "" ELSE findFrom(list, message, 1)

\* ------------------------------------------------------------------ messages
Now == "T1"
\* CheckoutCommand.generateStashMessage
generateStashMessage(fromBranch, toBranch) ==
    <<"gitnoob-stash:", fromBranch, "->", toBranch, "at", Now>>
UpdateMessage == <<"gitnoob-update-", Now>>
UpdateAllMessage == <<"gitnoob-update-all-", Now>>
MergeFromMessage == <<"gitnoob-merge-from-", Now>>

\* ------------------------------------------------------------------ log
Call(op, arg, r) == [op |-> op, arg |-> arg, ok |-> r.success,
                     conflict |-> IsConflict(r), own |-> FALSE]
\* a pop also records whether the entry it named was this invocation's
PopCall(list, ref, r) ==
    [op |-> "stash pop", arg |-> ref, ok |-> r.success, conflict |-> IsConflict(r),
     own |-> PopValid(list, ref) /\ list[RefIndex(ref)].own]

Finish(o, m, said) ==
    /\ pc' = "done"
    /\ outcome' = o
    /\ manual' = m
    /\ logs' = logs \cup said

Goto(next, said) ==
    /\ pc' = next
    /\ logs' = logs \cup said
    /\ UNCHANGED <<outcome, manual>>

DoCall(c) == calls' = Append(calls, c)
Answer(ok) == IF ok THEN Ok ELSE FailPlain

\* GitOperations.restoreStash answering r
DoPop(ref, r) ==
    /\ stashList' = PopList(stashList, ref, r)
    /\ wt' = PopTree(stashList, wt, ref, r)
    /\ DoCall(PopCall(stashList, ref, r))

\* a push also records whether it put an entry on the list
PushCall(tree, untracked, ok) ==
    [op |-> "stash push", arg |-> IF untracked THEN "--include-untracked" ELSE "",
     ok |-> ok, conflict |-> FALSE, own |-> ok /\ Covered(tree, untracked) # Clean]

\* GitOperations.stashChanges answering ok
DoStashChanges(message, ok) ==
    /\ stashList' = PushList(stashList, wt, head, message, FALSE, ok)
    /\ wt' = PushTree(wt, FALSE, ok)
    /\ DoCall(PushCall(wt, FALSE, ok))

\* the `git stash push ... --include-untracked` of GitOperations.createStash
DoStashUntracked(message, ok) ==
    /\ stashList' = PushList(stashList, wt, head, message, TRUE, ok)
    /\ wt' = PushTree(wt, TRUE, ok)
    /\ DoCall(PushCall(wt, TRUE, ok))

Strategy == IF useRebase THEN "rebase" ELSE "merge"
PreflightAnswers == {"ok", "norepo", "nobranch"}
BehindCounts == {0, 2}

\* BranchSelector.selectBranch: the typed name if it exists locally, else the
\* user's pick among the offered names ("" is null: nothing offered or cancel)
selectBranch(typed, pick) ==
    IF typed \in BranchSet THEN typed
    ELSE IF pick = "cancel" THEN "" ELSE pick

locals == <<currentBranch, targetBranch, status, stashMessage, stashRef,
            stashCountBefore, behindCount, todo, results>>
args == <<cmd, useRebase, clearStashes, inflight>>
pruneState == <<force, includeOrphaned, refs, cached, live, analysis>>

\* ------------------------------------------------------------------ branches
\* the branch names of the prune runs, in the order git lists them
LocalOrder == <<"feat", "main", "old">>
LocalNames == {LocalOrder[i] : i \in 1..Len(LocalOrder)}
InOrder(S) == SelectSeq(LocalOrder, LAMBDA b : b \in S)
\* Array.prototype.includes
Has(list, x) == \E i \in 1..Len(list) : list[i] = x

\* %(upstream:track) of a local branch: "[gone]" when the configured upstream
\* has no remote-tracking ref, else the ahead/behind words or nothing
track(rf, cch, b) ==
    IF rf[b] = "" THEN <<>>
    ELSE IF rf[b] \notin cch THEN <<"[gone]">>
    ELSE <<"[behind", "1]">>
\* the lines of `git for-each-ref --format='%(refname:short) %(upstream:track)'`
forEachRef(rf, cch) ==
    [i \in 1..Len(InOrder(DOMAIN rf)) |->
        <<InOrder(DOMAIN rf)[i]>> \o track(rf, cch, InOrder(DOMAIN rf)[i])]

\* GitOperations.getGoneBranches
getGoneBranches(rf, cch, ok) ==
    IF ~ok THEN <<>>
    ELSE LET gone == SelectSeq(forEachRef(rf, cch),
                               LAMBDA line : Len(line) >= 2 /\ line[2] = "[gone]")
         IN [i \in 1..Len(gone) |->
                [name |-> gone[i][1], hasRemote |-> FALSE, upstreamStatus |-> "gone"]]

\* GitOperations.getBranchesWithGoneUpstream: the local branches whose
\* tracking reports the upstream as deleted
getBranchesWithGoneUpstream(rf, cch, ok) ==
    [i \in 1..Len(getGoneBranches(rf, cch, ok)) |->
        [local |-> getGoneBranches(rf, cch, ok)[i].name]]

\* GitOperations.getLocalBranchesWithoutUpstream: the local branches with no
\* upstream configured at all
getLocalBranchesWithoutUpstream(rf, ok) ==
    IF ~ok THEN <<>> ELSE InOrder({b \in DOMAIN rf : rf[b] = ""})

\* getLocalBranchesWithUpstream keeping the lines that carry no upstream
getLocalBranchesWithUpstream_AllLines(rf, ok) ==
    IF ~ok THEN <<>>
    ELSE [i \in 1..Len(InOrder(DOMAIN rf)) |->
             [local |-> InOrder(DOMAIN rf)[i], remote |-> rf[InOrder(DOMAIN rf)[i]]]]

\* GitOperations.getLocalBranchesWithUpstream
getLocalBranchesWithUpstream(rf, ok) ==
    IF ~ok THEN <<>>
    ELSE LET tracked == InOrder({b \in DOMAIN rf : rf[b] # ""})
         IN [i \in 1..Len(tracked) |-> [local |-> tracked[i], remote |-> rf[tracked[i]]]]

\* GitOperations.getRemoteBranches
getRemoteBranches(cch, ok) == IF ~ok THEN <<>> ELSE InOrder(cch)
\* GitOperations.getRemoteLiveBranches
getRemoteLiveBranches(lv, ok) == IF ~ok THEN <<>> ELSE InOrder(lv)

mainBranches == {"main", "master", "develop", "development"}

\* PruneCommand.analyzeBranches with the stale loop not excluding gone branches
analyzeBranches_NoGoneExclusion(lb, rb, lv, wo, gn, isAvailable, cur) ==
    LET noConnection == lv = <<>> /\ isAvailable
        liveBranches == IF noConnection THEN rb ELSE lv
        activeBranches == IF noConnection THEN rb ELSE liveBranches
        stale == SelectSeq(lb, LAMBDA x : ~Has(activeBranches, x.remote))
    IN [localBranches |-> lb,
        remoteBranches |-> rb,
        liveBranches |-> liveBranches,
        branchesWithoutUpstream |-> wo,
        branchesWithGoneUpstream |-> gn,
        staleBranches |-> [i \in 1..Len(stale) |-> stale[i].local],
        orphanedBranches |->
            SelectSeq(wo, LAMBDA b : b # cur /\ b \notin mainBranches),
        goneBranches |-> [i \in 1..Len(gn) |-> gn[i].local],
        outdatedRemotes |->
            IF ~noConnection
            THEN SelectSeq(rb, LAMBDA b : ~Has(liveBranches, b) /\ b # "HEAD")
            ELSE <<>>,
        noConnection |-> noConnection]

\* analyzeBranches that marks the run degraded but keeps comparing against
\* the empty live answer
analyzeBranches_NoFallback(lb, rb, lv, wo, gn, isAvailable, cur) ==
    LET noConnection == lv = <<>> /\ isAvailable
        liveBranches == IF noConnection THEN rb ELSE lv
        goneBranches == [i \in 1..Len(gn) |-> gn[i].local]
        stale == SelectSeq(lb, LAMBDA x : /\ ~Has(goneBranches, x.local)
                                          /\ ~Has(lv, x.remote))
    IN [localBranches |-> lb, remoteBranches |-> rb, liveBranches |-> liveBranches,
        branchesWithoutUpstream |-> wo, branchesWithGoneUpstream |-> gn,
        staleBranches |-> [i \in 1..Len(stale) |-> stale[i].local],
        orphanedBranches |-> SelectSeq(wo, LAMBDA b : b # cur /\ b \notin mainBranches),
        goneBranches |-> goneBranches,
        outdatedRemotes |-> IF ~noConnection
            THEN SelectSeq(rb, LAMBDA b : ~Has(liveBranches, b) /\ b # "HEAD") ELSE <<>>,
        noConnection |-> noConnection]

\* analyzeBranches whose orphaned filter tests the protected names only
analyzeBranches_NoCurrentExclusion(lb, rb, lv, wo, gn, isAvailable, cur) ==
    LET noConnection == lv = <<>> /\ isAvailable
        liveBranches == IF noConnection THEN rb ELSE lv
        goneBranches == [i \in 1..Len(gn) |-> gn[i].local]
        activeBranches == IF noConnection THEN rb ELSE liveBranches
        stale == SelectSeq(lb, LAMBDA x : /\ ~Has(goneBranches, x.local)
                                          /\ ~Has(activeBranches, x.remote))
    IN [localBranches |-> lb, remoteBranches |-> rb, liveBranches |-> liveBranches,
        branchesWithoutUpstream |-> wo, branchesWithGoneUpstream |-> gn,
        staleBranches |-> [i \in 1..Len(stale) |-> stale[i].local],
        orphanedBranches |-> SelectSeq(wo, LAMBDA b : b \notin mainBranches),
        goneBranches |-> goneBranches,
        outdatedRemotes |-> IF ~noConnection
            THEN SelectSeq(rb, LAMBDA b : ~Has(liveBranches, b) /\ b # "HEAD") ELSE <<>>,
        noConnection |-> noConnection]

\* PruneCommand.analyzeBranches, given what the five queries, the second
\* isRemoteAvailable and getCurrentBranch answered
analyzeBranches(lb, rb, lv, wo, gn, isAvailable, cur) ==
    LET noConnection == lv = <<>> /\ isAvailable
        liveBranches == IF noConnection THEN rb ELSE lv
        goneBranches == [i \in 1..Len(gn) |-> gn[i].local]
        activeBranches == IF noConnection THEN rb ELSE liveBranches
        stale == SelectSeq(lb, LAMBDA x : /\ ~Has(goneBranches, x.local)
                                          /\ ~Has(activeBranches, x.remote))
    IN [localBranches |-> lb,
        remoteBranches |-> rb,
        liveBranches |-> liveBranches,
        branchesWithoutUpstream |-> wo,
        branchesWithGoneUpstream |-> gn,
        staleBranches |-> [i \in 1..Len(stale) |-> stale[i].local],
        orphanedBranches |->
            SelectSeq(wo, LAMBDA b : b # cur /\ b \notin mainBranches),
        goneBranches |-> goneBranches,
        outdatedRemotes |->
            IF ~noConnection
            THEN SelectSeq(rb, LAMBDA b : ~Has(liveBranches, b) /\ b # "HEAD")
            ELSE <<>>,
        noConnection |-> noConnection]

\* the analysis object before analyzeBranches ran
NoAnalysis == analyzeBranches(<<>>, <<>>, <<>>, <<>>, <<>>, FALSE, "")

\* allBranchesToDelete without the --include-orphaned test
allBranchesToDelete_AlwaysOrphaned(a, orphaned) ==
    a.staleBranches \o a.goneBranches \o a.orphanedBranches

\* PruneCommand.execute: "Collect all branches to be deleted"
allBranchesToDelete(a, orphaned) ==
    a.staleBranches \o a.goneBranches \o
    (IF orphaned THEN a.orphanedBranches ELSE <<>>)

\* ------------------------------------------------------------------ Init
PreEntry == Entry("main", <<"WIP">>, [unc |-> TRUE, stg |-> FALSE, unt |-> FALSE], FALSE)
PreLists == {[i \in 1..n |-> PreEntry] : n \in 0..MaxPre}

Init ==
    /\ cmd \in Cmds
    /\ useRebase \in BOOLEAN
    /\ pc = "start"
    /\ wt \in Trees
    /\ stashList \in PreLists
    /\ head \in BranchSet
    /\ inProgress = "none"
    /\ currentBranch = ""
    /\ targetBranch = ""
    /\ status = getStatus(Clean)
    /\ stashMessage = <<>>
    /\ stashRef = ""
    /\ stashCountBefore = 0
    /\ behindCount = 0
    /\ todo = <<>>
    /\ results = [failed |-> <<>>, updated |-> <<>>, upToDate |-> <<>>, skipped |-> <<>>]
    /\ calls = <<>>
    /\ logs = {}
    /\ outcome = "running"
    /\ manual = FALSE
    /\ ext = 0
    /\ force = FALSE
    /\ includeOrphaned = FALSE
    /\ refs = [b \in BranchSet |-> b]
    /\ cached = BranchSet
    /\ live = BranchSet
    /\ analysis = NoAnalysis
    /\ clearStashes = FALSE
    /\ inflight = {}

\* U_Preflight that fetches before it reports a failed check
U_Preflight_FetchFirst ==
    /\ cmd = "update" /\ pc = "start"
    /\ \E pf \in PreflightAnswers \cup {"noremote", "noupstream"} :
         IF pf = "ok"
         THEN /\ currentBranch' = head
              /\ Goto("guard", {})
              /\ UNCHANGED calls
         ELSE /\ Finish("exit1", FALSE, {"preflight"})
              /\ DoCall(Call("fetch", "", Ok))
              /\ UNCHANGED currentBranch
    /\ UNCHANGED <<args, pruneState, wt, stashList, head, inProgress, targetBranch, status,
                   stashMessage, stashRef, stashCountBefore, behindCount, todo,
                   results, ext>>

\* ------------------------------------------------------------------ update
\* UpdateCommand.execute: pre-flight checks
U_Preflight ==
    /\ cmd = "update" /\ pc = "start"
    /\ \E pf \in PreflightAnswers \cup {"noremote", "noupstream"} :
         IF pf = "ok"
         THEN /\ currentBranch' = head
              /\ Goto("guard", {})
         ELSE /\ Finish("exit1", FALSE, {"preflight"})
              /\ UNCHANGED currentBranch
    /\ UNCHANGED <<args, pruneState, wt, stashList, head, inProgress, targetBranch, status,
                   stashMessage, stashRef, stashCountBefore, behindCount, todo,
                   results, calls, ext>>

\* U_Guard with the hasChanges test left out: the stash is always attempted
U_Guard_Unconditional ==
    /\ cmd = "update" /\ pc = "guard"
    /\ status' = getStatus(wt)
    /\ stashMessage' = UpdateMessage
    /\ \E ok \in BOOLEAN :
         /\ DoStashChanges(UpdateMessage, ok)
         /\ IF ok THEN Goto("fetch", {})
            ELSE Finish("exit1", FALSE, {"stash failed"})
    /\ UNCHANGED <<args, pruneState, head, inProgress, currentBranch, targetBranch, stashRef,
                   stashCountBefore, behindCount, todo, results, ext>>

\* UpdateCommand.execute: status check and stash creation
U_Guard ==
    /\ cmd = "update" /\ pc = "guard"
    /\ status' = getStatus(wt)
    /\ IF status'.hasChanges
       THEN /\ stashMessage' = UpdateMessage
            /\ \E ok \in BOOLEAN :
                 /\ DoStashChanges(UpdateMessage, ok)
                 /\ IF ok THEN Goto("fetch", {})
                    ELSE Finish("exit1", FALSE, {"stash failed"})
       ELSE /\ Goto("fetch", {})
            /\ UNCHANGED <<stashMessage, stashList, wt, calls>>
    /\ UNCHANGED <<args, pruneState, head, inProgress, currentBranch, targetBranch, stashRef,
                   stashCountBefore, behindCount, todo, results, ext>>

\* UpdateCommand.execute: fetch, then the behind-count
U_Fetch ==
    /\ cmd = "update" /\ pc = "fetch"
    /\ \E ok \in BOOLEAN, n \in BehindCounts :
         /\ DoCall(Call("fetch", "", Answer(ok)))
         /\ IF ok
            THEN /\ behindCount' = n
                 /\ Goto(IF n = 0 THEN "uptodate" ELSE "strategy", {})
            ELSE /\ Finish("exit1", FALSE, {"fetch failed"})
                 /\ UNCHANGED behindCount
    /\ UNCHANGED <<args, pruneState, wt, stashList, head, inProgress, currentBranch,
                   targetBranch, status, stashMessage, stashRef,
                   stashCountBefore, todo, results, ext>>

\* UpdateCommand.execute: behind-count is zero
U_UpToDate ==
    /\ cmd = "update" /\ pc = "uptodate"
    /\ IF stashMessage # <<>>
       THEN \E listOk \in BOOLEAN :
              LET ref == findStash(stashList, stashMessage, listOk) IN
              IF ref # ""
              THEN \E r \in PopResults(stashList, ref) :
                     /\ DoPop(ref, r)
                     /\ Finish("success", FALSE,
                               IF r.success THEN {"up to date"}
                               ELSE {"up to date", "restore failed", "manual restore hint"})
              ELSE /\ Finish("success", FALSE, {"up to date"})
                   /\ UNCHANGED <<stashList, wt, calls>>
       ELSE /\ Finish("success", FALSE, {"up to date"})
            /\ UNCHANGED <<stashList, wt, calls>>
    /\ UNCHANGED <<args, pruneState, head, inProgress, locals, ext>>

\* UpdateCommand.execute: rebase or merge against upstream
U_Strategy ==
    /\ cmd = "update" /\ pc = "strategy"
    /\ \E r \in MutResults :
         /\ DoCall(Call(Strategy, "upstream", r))
         /\ inProgress' = IF IsConflict(r) THEN Strategy ELSE "none"
         /\ IF r.success THEN Goto("restore", {"updated"})
            ELSE IF hasMarker(r.err)
            THEN Finish("failure", TRUE,
                        {"conflict hint"} \cup
                        (IF stashMessage # <<>> THEN {"stash kept hint"} ELSE {}))
            ELSE Finish("exit1", FALSE, {"update failed"})
    /\ UNCHANGED <<args, pruneState, wt, stashList, head, locals, ext>>

\* UpdateCommand.execute: restore stash after a successful update
U_Restore ==
    /\ cmd = "update" /\ pc = "restore"
    /\ IF stashMessage # <<>>
       THEN \E listOk \in BOOLEAN :
              LET ref == findStash(stashList, stashMessage, listOk) IN
              IF ref # ""
              THEN \E r \in PopResults(stashList, ref) :
                     /\ DoPop(ref, r)
                     /\ IF r.success THEN Finish("success", FALSE, {"restored"})
                        ELSE IF hasMarker(r.err)
                        THEN Finish("failure", TRUE, {"stash conflict hint"})
                        ELSE Finish("success", FALSE, {"restore failed", "manual restore hint"})
              ELSE /\ Finish("success", FALSE, {})
                   /\ UNCHANGED <<stashList, wt, calls>>
       ELSE /\ Finish("success", FALSE, {})
            /\ UNCHANGED <<stashList, wt, calls>>
    /\ UNCHANGED <<args, pruneState, head, inProgress, locals, ext>>

\* ------------------------------------------------------------------ checkout
IsCheckout == cmd \in {"checkout", "checkout2"}
TypedNames == BranchSet \cup {"typo"}

\* Ck_Preflight that goes on to the guard with an unresolved branch
Ck_Preflight_NoCancel ==
    /\ IsCheckout /\ pc = "start"
    /\ \E pf \in PreflightAnswers, typed \in TypedNames, pick \in BranchSet \cup {"cancel"} :
         IF pf # "ok"
         THEN /\ Finish("exit1", FALSE, {"preflight"})
              /\ UNCHANGED <<currentBranch, targetBranch>>
         ELSE /\ currentBranch' = head
              /\ IF head = typed
                 THEN /\ Finish("success", FALSE, {"already on branch"})
                      /\ targetBranch' = typed
                 ELSE /\ targetBranch' = IF selectBranch(typed, pick) = "" THEN typed
                                         ELSE selectBranch(typed, pick)
                      /\ Goto("guard", {})
    /\ UNCHANGED <<args, pruneState, wt, stashList, head, inProgress, status, stashMessage,
                   stashRef, stashCountBefore, behindCount, todo, results, calls, ext>>

\* CheckoutCommand.execute (both definitions): pre-flight and branch selection
Ck_Preflight ==
    /\ IsCheckout /\ pc = "start"
    /\ \E pf \in PreflightAnswers, typed \in TypedNames, pick \in BranchSet \cup {"cancel"} :
         IF pf # "ok"
         THEN /\ Finish("exit1", FALSE, {"preflight"})
              /\ UNCHANGED <<currentBranch, targetBranch>>
         ELSE /\ currentBranch' = head
              /\ IF head = typed
                 THEN /\ Finish("success", FALSE, {"already on branch"})
                      /\ targetBranch' = typed
                 ELSE IF selectBranch(typed, pick) = ""
                 THEN /\ Finish("failure", FALSE, {"cancelled"})
                      /\ targetBranch' = typed
                 ELSE /\ targetBranch' = selectBranch(typed, pick)
                      /\ Goto("guard", {})
    /\ UNCHANGED <<args, pruneState, wt, stashList, head, inProgress, status, stashMessage,
                   stashRef, stashCountBefore, behindCount, todo, results, calls, ext>>

\* CheckoutCommand.execute (first definition): status check, stash count before
Ck1_Guard ==
    /\ cmd = "checkout" /\ pc = "guard"
    /\ status' = getStatus(wt)
    /\ IF status'.hasUncommittedChanges \/ status'.hasStagedChanges
       THEN /\ stashMessage' = generateStashMessage(currentBranch, targetBranch)
            /\ \E listOk \in BOOLEAN :
                 stashCountBefore' = IF listOk THEN Len(stashList) ELSE 0
            /\ Goto("create", {})
       ELSE /\ Goto("fetch", {})
            /\ UNCHANGED <<stashMessage, stashCountBefore>>
    /\ UNCHANGED <<args, pruneState, wt, stashList, head, inProgress, currentBranch,
                   targetBranch, stashRef, behindCount, todo, results, calls, ext>>

\* CheckoutCommand.execute (second definition): status check
Ck2_Guard ==
    /\ cmd = "checkout2" /\ pc = "guard"
    /\ status' = getStatus(wt)
    /\ IF status'.hasUncommittedChanges \/ status'.hasStagedChanges
       THEN /\ stashMessage' = generateStashMessage(currentBranch, targetBranch)
            /\ Goto("create", {})
       ELSE /\ Goto("fetch", {})
            /\ UNCHANGED stashMessage
    /\ UNCHANGED <<args, pruneState, wt, stashList, head, inProgress, currentBranch,
                   targetBranch, stashRef, stashCountBefore, behindCount, todo,
                   results, calls, ext>>

\* GitOperations.createStash: first try, with untracked files
createStash_First ==
    /\ IsCheckout /\ pc = "create"
    /\ \E ok \in BOOLEAN :
         /\ DoStashUntracked(stashMessage, ok)
         /\ IF ok THEN Goto(IF cmd = "checkout" THEN "verify" ELSE "fetch", {})
            ELSE Goto("create2", {})
    /\ UNCHANGED <<args, pruneState, head, inProgress, locals, ext>>

\* GitOperations.createStash: second try, without untracked files
createStash_Second ==
    /\ IsCheckout /\ pc = "create2"
    /\ \E ok \in BOOLEAN :
         /\ DoStashChanges(stashMessage, ok)
         /\ IF ok THEN Goto(IF cmd = "checkout" THEN "verify" ELSE "fetch", {})
            ELSE Finish("exit1", FALSE, {"stash failed"})
    /\ UNCHANGED <<args, pruneState, head, inProgress, locals, ext>>

\* CheckoutCommand.execute (first definition): verify the stash, keep its ref
Ck1_Verify ==
    /\ cmd = "checkout" /\ pc = "verify"
    /\ \E listOk \in BOOLEAN :
         /\ stashRef' = IF listOk /\ Len(stashList) > stashCountBefore
                        THEN matchRef(StashLine(1, stashList[1]))
                        ELSE ""
         /\ IF stashRef' # "" THEN Goto("fetch", {"stash created"})
            ELSE Finish("exit1", FALSE, {"stash unverified"})
    /\ UNCHANGED <<args, pruneState, wt, stashList, head, inProgress, currentBranch,
                   targetBranch, status, stashMessage, stashCountBefore,
                   behindCount, todo, results, calls, ext>>

\* CheckoutCommand.execute (both definitions): fetch, failure is a warning
Ck_Fetch ==
    /\ IsCheckout /\ pc = "fetch"
    /\ \E ok \in BOOLEAN :
         /\ DoCall(Call("fetch", "", Answer(ok)))
         /\ Goto("checkout", IF ok THEN {} ELSE {"fetch warning"})
    /\ UNCHANGED <<args, pruneState, wt, stashList, head, inProgress, locals, ext>>

\* CheckoutCommand.execute (both definitions): the checkout itself
Ck_Checkout ==
    /\ IsCheckout /\ pc = "checkout"
    /\ \E ok \in BOOLEAN :
         /\ DoCall(Call("checkout", targetBranch, Answer(ok)))
         /\ head' = IF ok THEN targetBranch ELSE head
         /\ Goto(IF ok THEN "ff" ELSE "ckfail", {})
    /\ UNCHANGED <<args, pruneState, wt, stashList, inProgress, locals, ext>>

\* Ck1_CheckoutFailed without its process.exit(1): execution falls through
Ck1_CheckoutFailed_NoExit ==
    /\ cmd = "checkout" /\ pc = "ckfail"
    /\ IF stashRef # ""
       THEN \E r \in PopResults(stashList, stashRef) :
              /\ DoPop(stashRef, r)
              /\ Goto("ff", IF r.success THEN {"checkout failed", "restored"}
                            ELSE {"checkout failed", "restore failed", "manual restore hint"})
       ELSE /\ Goto("ff", {"checkout failed"})
            /\ UNCHANGED <<stashList, wt, calls>>
    /\ UNCHANGED <<args, pruneState, head, inProgress, locals, ext>>

\* CheckoutCommand.execute (first definition): checkout failed
Ck1_CheckoutFailed ==
    /\ cmd = "checkout" /\ pc = "ckfail"
    /\ IF stashRef # ""
       THEN \E r \in PopResults(stashList, stashRef) :
              /\ DoPop(stashRef, r)
              /\ Finish("exit1", FALSE,
                        IF r.success THEN {"checkout failed", "restored"}
                        ELSE {"checkout failed", "restore failed", "manual restore hint"})
       ELSE /\ Finish("exit1", FALSE, {"checkout failed"})
            /\ UNCHANGED <<stashList, wt, calls>>
    /\ UNCHANGED <<args, pruneState, head, inProgress, locals, ext>>

\* CheckoutCommand.execute (second definition): checkout failed
Ck2_CheckoutFailed ==
    /\ cmd = "checkout2" /\ pc = "ckfail"
    /\ IF stashMessage # <<>>
       THEN \E listOk \in BOOLEAN :
              LET ref == findStash(stashList, stashMessage, listOk) IN
              IF ref # ""
              THEN \E r \in PopResults(stashList, ref) : DoPop(ref, r)
              ELSE UNCHANGED <<stashList, wt, calls>>
       ELSE UNCHANGED <<stashList, wt, calls>>
    /\ Finish("exit1", FALSE, {"checkout failed"})
    /\ UNCHANGED <<args, pruneState, head, inProgress, locals, ext>>

\* CheckoutCommand.execute (both definitions): fast-forward from the remote
Ck_FastForward ==
    /\ IsCheckout /\ pc = "ff"
    /\ \E hasRemoteBranch \in BOOLEAN, ok \in BOOLEAN :
         IF hasRemoteBranch
         THEN /\ calls' = calls \o <<Call("show-ref", targetBranch, Ok),
                                     Call("merge --ff-only", targetBranch, Answer(ok))>>
              /\ Goto("restore", IF ok THEN {} ELSE {"fast-forward warning"})
         ELSE /\ ok
              /\ Goto("restore", {})
              /\ DoCall(Call("show-ref", targetBranch, FailPlain))
    /\ UNCHANGED <<args, pruneState, wt, stashList, head, inProgress, locals, ext>>

\* errorMsg = restoreResult.stderr || restoreResult.stdout
errorMsg(r) == IF r.err # <<>> THEN r.err ELSE r.out

\* Ck1_Restore running the `git stash drop` it only prints, after a conflict
Ck1_Restore_DropsOnConflict ==
    /\ cmd = "checkout" /\ pc = "restore"
    /\ IF stashRef # ""
       THEN \E r \in PopResults(stashList, stashRef) :
              /\ wt' = PopTree(stashList, wt, stashRef, r)
              /\ IF ~r.success /\ hasMarker(errorMsg(r))
                 THEN /\ stashList' = Tail(stashList)
                      /\ calls' = calls \o <<PopCall(stashList, stashRef, r),
                                             Call("stash drop", "", Ok)>>
                 ELSE /\ stashList' = PopList(stashList, stashRef, r)
                      /\ DoCall(PopCall(stashList, stashRef, r))
              /\ Finish("success", FALSE,
                        IF r.success THEN {"restored"}
                        ELSE IF hasMarker(errorMsg(r)) THEN {"stash conflict hint"}
                        ELSE {"restore failed", "manual restore hint"})
       ELSE /\ Finish("success", FALSE, {})
            /\ UNCHANGED <<stashList, wt, calls>>
    /\ UNCHANGED <<args, pruneState, head, inProgress, locals, ext>>

\* CheckoutCommand.execute (first definition): restore after checkout
Ck1_Restore ==
    /\ cmd = "checkout" /\ pc = "restore"
    /\ IF stashRef # ""
       THEN \E r \in PopResults(stashList, stashRef) :
              /\ DoPop(stashRef, r)
              /\ Finish("success", FALSE,
                        IF r.success THEN {"restored"}
                        ELSE IF hasMarker(errorMsg(r)) THEN {"stash conflict hint"}
                        ELSE {"restore failed", "manual restore hint"})
       ELSE /\ Finish("success", FALSE, {})
            /\ UNCHANGED <<stashList, wt, calls>>
    /\ UNCHANGED <<args, pruneState, head, inProgress, locals, ext>>

\* CheckoutCommand.execute (second definition): restore after checkout
Ck2_Restore ==
    /\ cmd = "checkout2" /\ pc = "restore"
    /\ IF stashMessage # <<>>
       THEN \E listOk \in BOOLEAN :
              LET ref == findStash(stashList, stashMessage, listOk) IN
              IF ref # ""
              THEN \E r \in PopResults(stashList, ref) :
                     /\ DoPop(ref, r)
                     /\ Finish("success", FALSE,
                               IF r.success THEN {}
                               ELSE {"restore failed", "manual restore hint"})
              ELSE /\ Finish("success", FALSE, {})
                   /\ UNCHANGED <<stashList, wt, calls>>
       ELSE /\ Finish("success", FALSE, {})
            /\ UNCHANGED <<stashList, wt, calls>>
    /\ UNCHANGED <<args, pruneState, head, inProgress, locals, ext>>

\* ------------------------------------------------------------------ update-all
\* UpdateAllCommand.execute: pre-flight checks
UA_Preflight ==
    /\ cmd = "updateAll" /\ pc = "start"
    /\ \E pf \in PreflightAnswers :
         IF pf = "ok"
         THEN /\ currentBranch' = head
              /\ Goto("guard", {})
         ELSE /\ Finish("exit1", FALSE, {"preflight"})
              /\ UNCHANGED currentBranch
    /\ UNCHANGED <<args, pruneState, wt, stashList, head, inProgress, targetBranch, status,
                   stashMessage, stashRef, stashCountBefore, behindCount, todo,
                   results, calls, ext>>

\* UpdateAllCommand.execute: status check and stash creation
UA_Guard ==
    /\ cmd = "updateAll" /\ pc = "guard"
    /\ status' = getStatus(wt)
    /\ IF status'.hasChanges
       THEN /\ stashMessage' = UpdateAllMessage
            /\ \E ok \in BOOLEAN :
                 /\ DoStashChanges(UpdateAllMessage, ok)
                 /\ IF ok THEN Goto("fetch", {})
                    ELSE Finish("exit1", FALSE, {"stash failed"})
       ELSE /\ Goto("fetch", {})
            /\ UNCHANGED <<stashMessage, stashList, wt, calls>>
    /\ UNCHANGED <<args, pruneState, head, inProgress, currentBranch, targetBranch, stashRef,
                   stashCountBefore, behindCount, todo, results, ext>>

\* UpdateAllCommand.execute: fetch --all, then list the local branches
UA_Fetch ==
    /\ cmd = "updateAll" /\ pc = "fetch"
    /\ \E ok \in BOOLEAN, listOk \in BOOLEAN :
         /\ DoCall(Call("fetch", "--all", Answer(ok)))
         /\ IF ~ok
            THEN /\ listOk
                 /\ Finish("exit1", FALSE, {"fetch failed"})
                 /\ UNCHANGED todo
            ELSE IF ~listOk
            THEN /\ Finish("exit1", FALSE, {"no local branches"})
                 /\ UNCHANGED todo
            ELSE /\ todo' = Branches
                 /\ Goto("sweep", {})
    /\ UNCHANGED <<args, pruneState, wt, stashList, head, inProgress, currentBranch,
                   targetBranch, status, stashMessage, stashRef,
                   stashCountBefore, behindCount, results, ext>>

\* UA_Branch without the `continue` after an up-to-date branch: the branch is
\* recorded and then updated anyway
UA_Branch_NoContinue ==
    /\ cmd = "updateAll" /\ pc = "sweep" /\ todo # <<>>
    /\ \E hasUpstream \in BOOLEAN, n \in BehindCounts :
         IF ~hasUpstream
         THEN /\ n = 0
              /\ results' = [results EXCEPT !.skipped = Append(@, <<Head(todo)>>)]
              /\ todo' = Tail(todo)
              /\ Goto("sweep", {})
              /\ UNCHANGED behindCount
         ELSE /\ behindCount' = n
              /\ IF n = 0
                 THEN /\ results' = [results EXCEPT !.upToDate = Append(@, <<Head(todo)>>)]
                      /\ Goto("sweep checkout", {})
                      /\ UNCHANGED todo
                 ELSE /\ Goto("sweep checkout", {})
                      /\ UNCHANGED <<results, todo>>
    /\ UNCHANGED <<args, pruneState, wt, stashList, head, inProgress, currentBranch,
                   targetBranch, status, stashMessage, stashRef,
                   stashCountBefore, calls, ext>>

\* UpdateAllCommand.execute: loop head, upstream and behind-count of a branch
UA_Branch ==
    /\ cmd = "updateAll" /\ pc = "sweep" /\ todo # <<>>
    /\ \E hasUpstream \in BOOLEAN, n \in BehindCounts :
         IF ~hasUpstream
         THEN /\ n = 0
              /\ results' = [results EXCEPT !.skipped = Append(@, <<Head(todo)>>)]
              /\ todo' = Tail(todo)
              /\ Goto("sweep", {})
              /\ UNCHANGED behindCount
         ELSE /\ behindCount' = n
              /\ IF n = 0
                 THEN /\ results' = [results EXCEPT !.upToDate = Append(@, <<Head(todo)>>)]
                      /\ todo' = Tail(todo)
                      /\ Goto("sweep", {})
                 ELSE /\ Goto("sweep checkout", {})
                      /\ UNCHANGED <<results, todo>>
    /\ UNCHANGED <<args, pruneState, wt, stashList, head, inProgress, currentBranch,
                   targetBranch, status, stashMessage, stashRef,
                   stashCountBefore, calls, ext>>

\* UpdateAllCommand.execute: checkout of the branch to update
UA_Checkout ==
    /\ cmd = "updateAll" /\ pc = "sweep checkout"
    /\ \E ok \in BOOLEAN :
         /\ DoCall(Call("checkout", Head(todo), Answer(ok)))
         /\ head' = IF ok THEN Head(todo) ELSE head
         /\ IF ok
            THEN /\ Goto("sweep update", {})
                 /\ UNCHANGED <<results, todo>>
            ELSE /\ results' = [results EXCEPT !.failed = Append(@, <<Head(todo)>>)]
                 /\ todo' = Tail(todo)
                 /\ Goto("sweep", {})
    /\ UNCHANGED <<args, pruneState, wt, stashList, inProgress, currentBranch, targetBranch,
                   status, stashMessage, stashRef, stashCountBefore, behindCount,
                   ext>>

\* UpdateAllCommand.execute: rebase or merge of one branch
UA_Update ==
    /\ cmd = "updateAll" /\ pc = "sweep update"
    /\ \E r \in MutResults :
         /\ DoCall(Call(Strategy, Head(todo), r))
         /\ inProgress' = IF IsConflict(r) THEN Strategy ELSE "none"
         /\ IF r.success
            THEN /\ results' = [results EXCEPT !.updated = Append(@, <<Head(todo)>>)]
                 /\ todo' = Tail(todo)
                 /\ Goto("sweep", {})
            ELSE IF hasMarker(r.err)
            THEN /\ Goto("sweep abort", {"conflicts, aborting"})
                 /\ UNCHANGED <<results, todo>>
            ELSE /\ results' = [results EXCEPT !.failed = Append(@, <<Head(todo)>>)]
                 /\ todo' = Tail(todo)
                 /\ Goto("sweep", {})
    /\ UNCHANGED <<args, pruneState, wt, stashList, head, currentBranch, targetBranch,
                   status, stashMessage, stashRef, stashCountBefore, behindCount, ext>>

\* UpdateAllCommand.execute: abort of a conflicted rebase or merge
UA_Abort ==
    /\ cmd = "updateAll" /\ pc = "sweep abort"
    /\ \E ok \in BOOLEAN :
         /\ DoCall(Call(IF useRebase THEN "rebase --abort" ELSE "merge --abort",
                        "", Answer(ok)))
         /\ inProgress' = IF ok THEN "none" ELSE inProgress
    /\ results' = [results EXCEPT !.failed = Append(@, <<Head(todo), "(conflicts)">>)]
    /\ todo' = Tail(todo)
    /\ Goto("sweep", {})
    /\ UNCHANGED <<args, pruneState, wt, stashList, head, currentBranch, targetBranch,
                   status, stashMessage, stashRef, stashCountBefore, behindCount, ext>>

\* UA_SwitchBack issuing the checkout only when another branch is checked out
UA_SwitchBack_OnlyIfMoved ==
    /\ cmd = "updateAll" /\ pc = "sweep" /\ todo = <<>>
    /\ \E ok \in BOOLEAN :
         IF head # currentBranch
         THEN /\ DoCall(Call("checkout", currentBranch, Answer(ok)))
              /\ head' = IF ok THEN currentBranch ELSE head
              /\ Goto("restore", IF ok THEN {} ELSE {"switch back failed"})
         ELSE /\ ok
              /\ Goto("restore", {})
              /\ UNCHANGED <<calls, head>>
    /\ UNCHANGED <<args, pruneState, wt, stashList, inProgress, locals, ext>>

\* UpdateAllCommand.execute: switch back to the original branch
UA_SwitchBack ==
    /\ cmd = "updateAll" /\ pc = "sweep" /\ todo = <<>>
    /\ \E ok \in BOOLEAN :
         /\ DoCall(Call("checkout", currentBranch, Answer(ok)))
         /\ head' = IF ok THEN currentBranch ELSE head
         /\ Goto("restore", IF ok THEN {} ELSE {"switch back failed"})
    /\ UNCHANGED <<args, pruneState, wt, stashList, inProgress, locals, ext>>

\* the GitResult UpdateAllCommand.execute returns
UA_Outcome(res) == IF Len(res.failed) > 0 THEN "failure" ELSE "success"

\* UpdateAllCommand.execute: restore stash, summary
UA_Restore ==
    /\ cmd = "updateAll" /\ pc = "restore"
    /\ IF stashMessage # <<>>
       THEN \E listOk \in BOOLEAN :
              LET ref == findStash(stashList, stashMessage, listOk) IN
              IF ref # ""
              THEN \E r \in PopResults(stashList, ref) :
                     /\ DoPop(ref, r)
                     /\ Finish(UA_Outcome(results), FALSE,
                               IF r.success THEN {"summary"}
                               ELSE {"summary", "restore failed", "manual restore hint"})
              ELSE /\ Finish(UA_Outcome(results), FALSE, {"summary"})
                   /\ UNCHANGED <<stashList, wt, calls>>
       ELSE /\ Finish(UA_Outcome(results), FALSE, {"summary"})
            /\ UNCHANGED <<stashList, wt, calls>>
    /\ UNCHANGED <<args, pruneState, head, inProgress, locals, ext>>

\* ------------------------------------------------------------------ merge-from
\* MergeFromCommand.execute: pre-flight and branch selection
MF_Preflight ==
    /\ cmd = "mergeFrom" /\ pc = "start"
    /\ \E pf \in PreflightAnswers, typed \in TypedNames, pick \in BranchSet \cup {"cancel"} :
         IF pf # "ok"
         THEN /\ Finish("exit1", FALSE, {"preflight"})
              /\ UNCHANGED <<currentBranch, targetBranch>>
         ELSE /\ currentBranch' = head
              /\ IF head = typed
                 THEN /\ Finish("exit1", FALSE, {"cannot merge into itself"})
                      /\ targetBranch' = typed
                 ELSE IF selectBranch(typed, pick) = ""
                 THEN /\ Finish("failure", FALSE, {"cancelled"})
                      /\ targetBranch' = typed
                 ELSE /\ targetBranch' = selectBranch(typed, pick)
                      /\ Goto("guard", {})
    /\ UNCHANGED <<args, pruneState, wt, stashList, head, inProgress, status, stashMessage,
                   stashRef, stashCountBefore, behindCount, todo, results, calls, ext>>

\* MergeFromCommand.execute, step 1: status check and stash creation
MF_Guard ==
    /\ cmd = "mergeFrom" /\ pc = "guard"
    /\ status' = getStatus(wt)
    /\ IF status'.hasChanges
       THEN /\ stashMessage' = MergeFromMessage
            /\ \E ok \in BOOLEAN :
                 /\ DoStashChanges(MergeFromMessage, ok)
                 /\ IF ok THEN Goto("fetch", {})
                    ELSE Finish("exit1", FALSE, {"stash failed"})
       ELSE /\ Goto("fetch", {})
            /\ UNCHANGED <<stashMessage, stashList, wt, calls>>
    /\ UNCHANGED <<args, pruneState, head, inProgress, currentBranch, targetBranch, stashRef,
                   stashCountBefore, behindCount, todo, results, ext>>

\* MergeFromCommand.execute, step 2: fetch, failure is a warning; then the
\* upstream and behind-count of the current branch
MF_Fetch ==
    /\ cmd = "mergeFrom" /\ pc = "fetch"
    /\ \E ok \in BOOLEAN, hasUpstream \in BOOLEAN, n \in BehindCounts :
         /\ DoCall(Call("fetch", "", Answer(ok)))
         /\ hasUpstream \/ n = 0
         /\ behindCount' = n
         /\ Goto(IF hasUpstream /\ n > 0 THEN "update current" ELSE "checkout source",
                 IF ok THEN {} ELSE {"fetch warning"})
    /\ UNCHANGED <<args, pruneState, wt, stashList, head, inProgress, currentBranch,
                   targetBranch, status, stashMessage, stashRef,
                   stashCountBefore, todo, results, ext>>

\* MF_UpdateCurrent going on to the source branch whatever the rebase answered
MF_UpdateCurrent_IgnoresFailure ==
    /\ cmd = "mergeFrom" /\ pc = "update current"
    /\ \E r \in MutResults :
         /\ DoCall(Call("rebase", "upstream", r))
         /\ inProgress' = IF IsConflict(r) THEN "rebase" ELSE "none"
         /\ Goto("checkout source",
                 IF r.success THEN {} ELSE {"update current failed"})
    /\ UNCHANGED <<args, pruneState, wt, stashList, head, locals, ext>>

\* MergeFromCommand.execute, step 3: rebase the current branch on its upstream
MF_UpdateCurrent ==
    /\ cmd = "mergeFrom" /\ pc = "update current"
    /\ \E r \in MutResults :
         /\ DoCall(Call("rebase", "upstream", r))
         /\ inProgress' = IF IsConflict(r) THEN "rebase" ELSE "none"
         /\ Goto(IF r.success THEN "checkout source" ELSE "fail restore",
                 IF r.success THEN {} ELSE {"update current failed"})
    /\ UNCHANGED <<args, pruneState, wt, stashList, head, locals, ext>>

\* MergeFromCommand.execute: "Restore stash and exit" after a failed step
MF_FailRestore ==
    /\ cmd = "mergeFrom" /\ pc = "fail restore"
    /\ IF stashMessage # <<>>
       THEN \E listOk \in BOOLEAN :
              LET ref == findStash(stashList, stashMessage, listOk) IN
              IF ref # ""
              THEN \E r \in PopResults(stashList, ref) : DoPop(ref, r)
              ELSE UNCHANGED <<stashList, wt, calls>>
       ELSE UNCHANGED <<stashList, wt, calls>>
    /\ Finish("exit1", FALSE, {"step failed"})
    /\ UNCHANGED <<args, pruneState, head, inProgress, locals, ext>>

\* MergeFromCommand.execute, step 4: checkout of the source branch, then its
\* upstream and behind-count
MF_CheckoutSource ==
    /\ cmd = "mergeFrom" /\ pc = "checkout source"
    /\ \E ok \in BOOLEAN, hasUpstream \in BOOLEAN, n \in BehindCounts :
         /\ DoCall(Call("checkout", targetBranch, Answer(ok)))
         /\ head' = IF ok THEN targetBranch ELSE head
         /\ IF ~ok
            THEN /\ hasUpstream /\ n = 0
                 /\ Goto("fail restore", {"checkout source failed"})
                 /\ UNCHANGED behindCount
            ELSE /\ hasUpstream \/ n = 0
                 /\ behindCount' = n
                 /\ Goto(IF hasUpstream /\ n > 0 THEN "update source" ELSE "switch back", {})
    /\ UNCHANGED <<args, pruneState, wt, stashList, inProgress, currentBranch, targetBranch,
                   status, stashMessage, stashRef, stashCountBefore, todo,
                   results, ext>>

\* MergeFromCommand.execute, step 4: rebase the source branch on its upstream
MF_UpdateSource ==
    /\ cmd = "mergeFrom" /\ pc = "update source"
    /\ \E r \in MutResults :
         /\ DoCall(Call("rebase", "source upstream", r))
         /\ inProgress' = IF IsConflict(r) THEN "rebase" ELSE "none"
         /\ Goto(IF r.success THEN "switch back" ELSE "source failed back",
                 IF r.success THEN {} ELSE {"update source failed"})
    /\ UNCHANGED <<args, pruneState, wt, stashList, head, locals, ext>>

\* MergeFromCommand.execute: switch back after the source update failed
MF_SourceFailedBack ==
    /\ cmd = "mergeFrom" /\ pc = "source failed back"
    /\ \E ok \in BOOLEAN :
         /\ DoCall(Call("checkout", currentBranch, Answer(ok)))
         /\ head' = IF ok THEN currentBranch ELSE head
    /\ Goto("fail restore", {})
    /\ UNCHANGED <<args, pruneState, wt, stashList, inProgress, locals, ext>>

\* MergeFromCommand.execute, step 5: switch back to the current branch
MF_SwitchBack ==
    /\ cmd = "mergeFrom" /\ pc = "switch back"
    /\ \E ok \in BOOLEAN :
         /\ DoCall(Call("checkout", currentBranch, Answer(ok)))
         /\ head' = IF ok THEN currentBranch ELSE head
         /\ IF ok THEN Goto("merge", {})
            ELSE Finish("exit1", FALSE, {"switch back failed"})
    /\ UNCHANGED <<args, pruneState, wt, stashList, inProgress, locals, ext>>

\* MergeFromCommand.execute, step 6: merge or rebase from the source branch
MF_Merge ==
    /\ cmd = "mergeFrom" /\ pc = "merge"
    /\ \E r \in MutResults :
         /\ DoCall(Call(Strategy, targetBranch, r))
         /\ inProgress' = IF IsConflict(r) THEN Strategy ELSE "none"
         /\ IF r.success THEN Goto("restore", {"merged"})
            ELSE IF hasMarker(r.err)
            THEN Finish("failure", TRUE,
                        {"conflict hint"} \cup
                        (IF stashMessage # <<>> THEN {"stash kept hint"} ELSE {}))
            ELSE Finish("exit1", FALSE, {"merge failed"})
    /\ UNCHANGED <<args, pruneState, wt, stashList, head, locals, ext>>

\* MergeFromCommand.execute, step 7: restore stash
MF_Restore ==
    /\ cmd = "mergeFrom" /\ pc = "restore"
    /\ IF stashMessage # <<>>
       THEN \E listOk \in BOOLEAN :
              LET ref == findStash(stashList, stashMessage, listOk) IN
              IF ref # ""
              THEN \E r \in PopResults(stashList, ref) :
                     /\ DoPop(ref, r)
                     /\ IF r.success THEN Finish("success", FALSE, {"restored"})
                        ELSE IF hasMarker(r.err)
                        THEN Finish("failure", TRUE, {"stash conflict hint"})
                        ELSE Finish("success", FALSE, {"restore failed", "manual restore hint"})
              ELSE /\ Finish("success", FALSE, {})
                   /\ UNCHANGED <<stashList, wt, calls>>
       ELSE /\ Finish("success", FALSE, {})
            /\ UNCHANGED <<stashList, wt, calls>>
    /\ UNCHANGED <<args, pruneState, head, inProgress, locals, ext>>

\* ------------------------------------------------------------------ prune
\* what a prune run leaves alone
workflowState == <<useRebase, wt, stashList, inProgress, currentBranch,
                   targetBranch, status, stashMessage, stashRef,
                   stashCountBefore, behindCount, ext>>
flags == <<cmd, force, includeOrphaned, clearStashes, inflight>>

\* the repositories a prune run starts in: every local branch has no
\* upstream or tracks its namesake on origin
InitPrune ==
    /\ cmd = "prune"
    /\ useRebase = FALSE
    /\ pc = "start"
    /\ wt = Clean
    /\ stashList = <<>>
    \* the checked-out branch: a protected name or an ordinary one
    /\ head \in {"feat", "main"}
    /\ inProgress = "none"
    /\ currentBranch = ""
    /\ targetBranch = ""
    /\ status = getStatus(Clean)
    /\ stashMessage = <<>>
    /\ stashRef = ""
    /\ stashCountBefore = 0
    /\ behindCount = 0
    /\ todo = <<>>
    /\ results = [failed |-> <<>>, updated |-> <<>>, upToDate |-> <<>>, skipped |-> <<>>]
    /\ calls = <<>>
    /\ logs = {}
    /\ outcome = "running"
    /\ manual = FALSE
    /\ ext = 0
    /\ force \in BOOLEAN
    /\ includeOrphaned \in BOOLEAN
    /\ refs \in [LocalNames -> {""} \cup LocalNames]
    /\ \A b \in LocalNames : refs[b] \in {"", b}
    /\ cached \in SUBSET LocalNames
    /\ live \in SUBSET LocalNames
    /\ analysis = NoAnalysis
    /\ clearStashes = FALSE
    /\ inflight = {}

\* PruneCommand.execute: pre-flight checks
P_Preflight ==
    /\ cmd = "prune" /\ pc = "start"
    /\ \E pf \in {"ok", "norepo", "noremote"} :
         IF pf = "ok" THEN Goto("fetch", {})
         ELSE Finish("exit1", FALSE, {"preflight"})
    /\ UNCHANGED <<flags, workflowState, head, refs, cached, live, analysis,
                   todo, results, calls>>

\* PruneCommand.execute: fetch with prune
P_Fetch ==
    /\ cmd = "prune" /\ pc = "fetch"
    /\ \E ok \in BOOLEAN :
         /\ DoCall(Call("fetch", "", Answer(ok)))
         /\ IF ok THEN Goto("analyze", {})
            ELSE Finish("exit1", FALSE, {"fetch failed"})
    /\ UNCHANGED <<flags, workflowState, head, refs, cached, live, analysis,
                   todo, results>>

\* PruneCommand.execute: branch analysis, collection of the branches to
\* delete, display of the categories and the two early returns
P_Analyze ==
    /\ cmd = "prune" /\ pc = "analyze"
    /\ \E okUp, okRemote, okLive, okWithout, okGone, isAvailable, okCurrent \in BOOLEAN :
         /\ analysis' = analyzeBranches(
                getLocalBranchesWithUpstream(refs, okUp),
                getRemoteBranches(cached, okRemote),
                getRemoteLiveBranches(live, okLive),
                getLocalBranchesWithoutUpstream(refs, okWithout),
                getBranchesWithGoneUpstream(refs, cached, okGone),
                isAvailable,
                IF okCurrent THEN head ELSE "")
         \* isRemoteAvailable is asked again only after an empty live answer
         /\ getRemoteLiveBranches(live, okLive) # <<>> => isAvailable
         /\ calls' = calls \o <<Call("ls-remote", "-h", Answer(okLive))>> \o
                    (IF getRemoteLiveBranches(live, okLive) = <<>>
                     THEN <<Call("remote", "-v", Answer(isAvailable))>> ELSE <<>>) \o
                    <<Call("branch", "--show-current", Answer(okCurrent))>>
    /\ todo' = allBranchesToDelete(analysis', includeOrphaned)
    /\ IF /\ analysis'.staleBranches = <<>> /\ analysis'.goneBranches = <<>>
          /\ analysis'.orphanedBranches = <<>>
       THEN Finish("success", FALSE, {"no stale branches"})
       ELSE IF todo' = <<>>
       THEN Finish("success", FALSE, {"no safe branches"})
       ELSE Goto("confirm",
                 (IF analysis'.noConnection THEN {"no connection"} ELSE {}) \cup
                 (IF analysis'.outdatedRemotes # <<>> THEN {"outdated remotes"} ELSE {}))
    /\ UNCHANGED <<flags, workflowState, head, refs, cached, live, results>>

\* P_Confirm that reports the declined confirmation and deletes all the same
P_Confirm_DeclineIgnored ==
    /\ cmd = "prune" /\ pc = "confirm"
    /\ \E confirmed \in {"yes", "no", "cancel"} :
         IF confirmed = "cancel" THEN Finish("failure", FALSE, {"cancelled"})
         ELSE IF confirmed = "no" THEN Goto("delete", {"pruning cancelled"})
         ELSE Goto("delete", {})
    /\ UNCHANGED <<flags, workflowState, head, refs, cached, live, analysis,
                   todo, results, calls>>

\* PruneCommand.execute: the confirmation
P_Confirm ==
    /\ cmd = "prune" /\ pc = "confirm"
    /\ \E confirmed \in {"yes", "no", "cancel"} :
         IF confirmed = "cancel" THEN Finish("failure", FALSE, {"cancelled"})
         ELSE IF confirmed = "no" THEN Finish("failure", FALSE, {"pruning cancelled"})
         ELSE Goto("delete", {})
    /\ UNCHANGED <<flags, workflowState, head, refs, cached, live, analysis,
                   todo, results, calls>>

\* PruneCommand.deleteBranches: one `git branch -d|-D`; git refuses the
\* checked-out branch and a branch that does not exist
P_Delete ==
    /\ cmd = "prune" /\ pc = "delete" /\ todo # <<>>
    /\ \E ok \in BOOLEAN :
         /\ ok => (Head(todo) # head /\ Head(todo) \in DOMAIN refs)
         /\ DoCall(Call(IF force THEN "branch -D" ELSE "branch -d", Head(todo), Answer(ok)))
         /\ refs' = IF ok THEN [b \in (DOMAIN refs) \ {Head(todo)} |-> refs[b]] ELSE refs
         /\ results' = IF ok THEN results
                       ELSE [results EXCEPT !.failed = Append(@, <<Head(todo)>>)]
    /\ todo' = Tail(todo)
    /\ Goto("delete", {})
    /\ UNCHANGED <<flags, workflowState, head, cached, live, analysis>>

\* PruneCommand.deleteBranches: the result
P_Report ==
    /\ cmd = "prune" /\ pc = "delete" /\ todo = <<>>
    /\ Finish(IF Len(results.failed) = 0 THEN "success" ELSE "failure", FALSE,
              {"deleted count"})
    /\ UNCHANGED <<flags, workflowState, head, refs, cached, live, analysis,
                   todo, results, calls>>

Prune == P_Preflight \/ P_Fetch \/ P_Analyze \/ P_Confirm \/ P_Delete \/ P_Report

\* one prune run over one repository
SpecPrune == InitPrune /\ [][Prune]_vars

\* ------------------------------------------------------------------ Spec
Update == U_Preflight \/ U_Guard \/ U_Fetch \/ U_UpToDate \/ U_Strategy \/ U_Restore

Checkout ==
    \/ Ck_Preflight \/ Ck1_Guard \/ Ck2_Guard \/ createStash_First
    \/ createStash_Second \/ Ck1_Verify \/ Ck_Fetch \/ Ck_Checkout
    \/ Ck1_CheckoutFailed \/ Ck2_CheckoutFailed \/ Ck_FastForward
    \/ Ck1_Restore \/ Ck2_Restore

UpdateAll ==
    \/ UA_Preflight \/ UA_Guard \/ UA_Fetch \/ UA_Branch \/ UA_Checkout
    \/ UA_Update \/ UA_Abort \/ UA_SwitchBack \/ UA_Restore

MergeFrom ==
    \/ MF_Preflight \/ MF_Guard \/ MF_Fetch \/ MF_UpdateCurrent \/ MF_FailRestore
    \/ MF_CheckoutSource \/ MF_UpdateSource \/ MF_SourceFailedBack
    \/ MF_SwitchBack \/ MF_Merge \/ MF_Restore

Next == Update \/ Checkout \/ UpdateAll \/ MergeFrom

\* single-threaded execution: nothing else touches the repository meanwhile
Spec == Init /\ [][Next]_vars

\* a save-point pushed by other means while the command runs
ExternalPush ==
    /\ outcome = "running" /\ pc # "start"
    /\ ext < MaxExt
    /\ ext' = ext + 1
    /\ stashList' = <<Entry(head, <<"WIP">>, Clean, FALSE)>> \o stashList
    /\ UNCHANGED <<args, pruneState, pc, wt, head, inProgress, locals, calls, logs, outcome, manual>>

NextExt == Next \/ ExternalPush

SpecExt == Init /\ [][NextExt]_vars

\* ------------------------------------------------------------------ reset
\* what a reset run leaves alone
resetFrame == <<flags, useRebase, targetBranch, status, stashMessage, stashRef,
                stashCountBefore, behindCount, todo, results, ext,
                refs, cached, live, analysis>>

protectedBranches == {"main", "master", "develop", "development"}
Destructive == {"rebase --abort", "merge --abort", "stash drop", "reset --hard", "clean"}

\* the save-point lists a reset run starts with
ResetLists ==
    UNION {[1..n -> {Entry(b, <<"WIP">>, [unc |-> TRUE, stg |-> FALSE, unt |-> FALSE],
                           FALSE) : b \in BranchSet}] : n \in 0..MaxStashes}

InitReset ==
    /\ cmd = "reset"
    /\ useRebase = FALSE
    /\ pc = "start"
    /\ wt \in Trees
    /\ stashList \in ResetLists
    /\ head \in BranchSet
    /\ inProgress \in {"none", "rebase", "merge"}
    /\ currentBranch = ""
    /\ targetBranch = ""
    /\ status = getStatus(Clean)
    /\ stashMessage = <<>>
    /\ stashRef = ""
    /\ stashCountBefore = 0
    /\ behindCount = 0
    /\ todo = <<>>
    /\ results = [failed |-> <<>>, updated |-> <<>>, upToDate |-> <<>>, skipped |-> <<>>]
    /\ calls = <<>>
    /\ logs = {}
    /\ outcome = "running"
    /\ manual = FALSE
    /\ ext = 0
    /\ force \in BOOLEAN
    /\ includeOrphaned = FALSE
    /\ refs = [b \in BranchSet |-> b]
    /\ cached = BranchSet
    /\ live = BranchSet
    /\ analysis = NoAnalysis
    /\ clearStashes \in BOOLEAN
    /\ inflight = {}

\* the references of the listed lines that mention the branch:
\* lines.filter(line => line.includes(currentBranch)), stash.split(':')[0]
branchStashes(list, branch) ==
    LET lines == [i \in 1..Len(list) |-> StashLine(i, list[i])]
        mine == SelectSeq(lines, LAMBDA line : includes(line, <<branch>>))
    IN [k \in 1..Len(mine) |-> mine[k][1]]

\* `git stash drop <ref>`: the entry at that position leaves the list
DropList(list, ref) ==
    IF PopValid(list, ref)
    THEN [i \in 1..(Len(list) - 1) |-> IF i < RefIndex(ref) THEN list[i] ELSE list[i + 1]]
    ELSE list

\* the loop `for (const stash of branchStashes) git stash drop stashRef`
RECURSIVE dropEach(_, _)
dropEach(list, stashRefs) ==
    IF stashRefs = <<>> THEN list
    ELSE dropEach(DropList(list, Head(stashRefs)), Tail(stashRefs))
RECURSIVE dropCalls(_, _)
dropCalls(list, stashRefs) ==
    IF stashRefs = <<>> THEN <<>>
    ELSE <<Call("stash drop", Head(stashRefs), Answer(PopValid(list, Head(stashRefs))))>>
         \o dropCalls(DropList(list, Head(stashRefs)), Tail(stashRefs))

\* R_Preflight without the --force requirement on a protected branch
R_Preflight_NoForceCheck ==
    /\ cmd = "reset" /\ pc = "start"
    /\ \E pf \in PreflightAnswers :
         IF pf # "ok"
         THEN /\ Finish("exit1", FALSE, {"preflight"})
              /\ UNCHANGED currentBranch
         ELSE /\ currentBranch' = head
              /\ Goto("confirm", {})
    /\ UNCHANGED <<resetFrame, wt, stashList, head, inProgress, calls>>

\* ResetCommand.execute: pre-flight checks and the protected-branch check
R_Preflight ==
    /\ cmd = "reset" /\ pc = "start"
    /\ \E pf \in PreflightAnswers :
         IF pf # "ok"
         THEN /\ Finish("exit1", FALSE, {"preflight"})
              /\ UNCHANGED currentBranch
         ELSE /\ currentBranch' = head
              /\ IF head \in protectedBranches /\ ~force
                 THEN Finish("exit1", FALSE, {"protected branch"})
                 ELSE Goto("confirm", {})
    /\ UNCHANGED <<resetFrame, wt, stashList, head, inProgress, calls>>

\* ResetCommand.execute: the confirmation
R_Confirm ==
    /\ cmd = "reset" /\ pc = "confirm"
    /\ \E confirm \in {"yes", "no", "cancel"} :
         /\ DoCall(Call("confirm", "sure", Answer(confirm = "yes")))
         /\ IF confirm # "yes" THEN Finish("success", FALSE, {"reset cancelled"})
            ELSE Goto(IF currentBranch \in protectedBranches THEN "confirm2" ELSE "abort", {})
    /\ UNCHANGED <<resetFrame, wt, stashList, head, inProgress, currentBranch>>

\* ResetCommand.execute: the second confirmation, on a protected branch
R_DoubleConfirm ==
    /\ cmd = "reset" /\ pc = "confirm2"
    /\ \E doubleConfirm \in {"yes", "no", "cancel"} :
         /\ DoCall(Call("confirm", "really sure", Answer(doubleConfirm = "yes")))
         /\ IF doubleConfirm # "yes" THEN Finish("success", FALSE, {"reset cancelled"})
            ELSE Goto("abort", {})
    /\ UNCHANGED <<resetFrame, wt, stashList, head, inProgress, currentBranch>>

\* ResetCommand.execute, steps 1 and 2: abort a rebase, then a merge, when
\* the porcelain status output contains the word
R_Abort ==
    /\ cmd = "reset" /\ pc = "abort"
    /\ \E rebaseInProgress, mergeInProgress \in BOOLEAN :
         /\ calls' = calls \o
               (IF rebaseInProgress
                THEN <<Call("rebase --abort", "", Answer(inProgress = "rebase"))>> ELSE <<>>) \o
               (IF mergeInProgress
                THEN <<Call("merge --abort", "", Answer(inProgress = "merge"))>> ELSE <<>>)
         /\ inProgress' = IF \/ rebaseInProgress /\ inProgress = "rebase"
                             \/ mergeInProgress /\ inProgress = "merge"
                          THEN "none" ELSE inProgress
    /\ Goto("clear", {})
    /\ UNCHANGED <<resetFrame, wt, stashList, head, currentBranch>>

\* ResetCommand.execute, step 3: drop the stashes of the current branch
R_ClearStashes ==
    /\ cmd = "reset" /\ pc = "clear"
    /\ IF clearStashes
       THEN \E listOk \in BOOLEAN :
              LET stashRefs == IF listOk THEN branchStashes(stashList, currentBranch)
                               ELSE <<>>
              IN /\ stashList' = dropEach(stashList, stashRefs)
                 /\ calls' = calls \o <<Call("stash list", "", Answer(listOk))>> \o
                             dropCalls(stashList, stashRefs)
                 /\ Goto("reset", {"clearing stashes"})
       ELSE /\ Goto("reset", {})
            /\ UNCHANGED <<stashList, calls>>
    /\ UNCHANGED <<resetFrame, wt, head, inProgress, currentBranch>>

\* ResetCommand.execute, step 4: git reset --hard HEAD
R_ResetHard ==
    /\ cmd = "reset" /\ pc = "reset"
    /\ \E ok \in BOOLEAN :
         /\ DoCall(Call("reset --hard", "HEAD", Answer(ok)))
         /\ wt' = IF ok THEN [unc |-> FALSE, stg |-> FALSE, unt |-> wt.unt] ELSE wt
         /\ inProgress' = IF ok /\ inProgress = "merge" THEN "none" ELSE inProgress
         /\ IF ok THEN Goto("clean", {})
            ELSE Finish("exit1", FALSE, {"reset failed"})
    /\ UNCHANGED <<resetFrame, stashList, head, currentBranch>>

\* ResetCommand.execute, step 5: git clean -fd
R_Clean ==
    /\ cmd = "reset" /\ pc = "clean"
    /\ \E ok \in BOOLEAN :
         /\ DoCall(Call("clean", "-fd", Answer(ok)))
         /\ wt' = IF ok THEN [wt EXCEPT !.unt = FALSE] ELSE wt
         /\ IF ok THEN Goto("upstream", {})
            ELSE Finish("exit1", FALSE, {"clean failed"})
    /\ UNCHANGED <<resetFrame, stashList, head, inProgress, currentBranch>>

\* ResetCommand.execute, step 6 and the end: fetch and hard reset to the
\* upstream, if there is one; the working tree has no local change left
R_Upstream ==
    /\ cmd = "reset" /\ pc = "upstream"
    /\ \E hasUpstream, fetchOk, ok \in BOOLEAN :
         IF hasUpstream
         THEN calls' = calls \o <<Call("fetch", "", Answer(fetchOk)),
                                  Call("reset --hard", "upstream", Answer(ok))>>
         ELSE /\ fetchOk /\ ok
              /\ UNCHANGED calls
    /\ Finish("success", FALSE, {"reset done"})
    /\ UNCHANGED <<resetFrame, wt, stashList, head, inProgress, currentBranch>>

Reset ==
    \/ R_Preflight \/ R_Confirm \/ R_DoubleConfirm \/ R_Abort
    \/ R_ClearStashes \/ R_ResetHard \/ R_Clean \/ R_Upstream

\* one reset run over one working copy
SpecReset == InitReset /\ [][Reset]_vars

\* ------------------------------------------------------------------ force-push
\* what a force-push run leaves alone
forcePushFrame == <<flags, useRebase, stashList, inProgress, stashMessage, stashRef,
                    stashCountBefore, behindCount, todo, results, ext,
                    refs, cached, live, analysis>>

InitForcePush ==
    /\ cmd = "forcePush"
    /\ useRebase = FALSE
    /\ pc = "start"
    /\ wt \in Trees
    /\ stashList = <<>>
    /\ head \in BranchSet
    /\ inProgress = "none"
    /\ currentBranch = ""
    /\ targetBranch = ""
    /\ status = getStatus(Clean)
    /\ stashMessage = <<>>
    /\ stashRef = ""
    /\ stashCountBefore = 0
    /\ behindCount = 0
    /\ todo = <<>>
    /\ results = [failed |-> <<>>, updated |-> <<>>, upToDate |-> <<>>, skipped |-> <<>>]
    /\ calls = <<>>
    /\ logs = {}
    /\ outcome = "running"
    /\ manual = FALSE
    /\ ext = 0
    /\ force = FALSE
    /\ includeOrphaned = FALSE
    /\ refs = [b \in BranchSet |-> b]
    /\ cached = BranchSet
    /\ live = BranchSet
    /\ analysis = NoAnalysis
    /\ clearStashes = FALSE
    /\ inflight = {}

\* ForcePushCommand.execute: pre-flight checks and the status query
FP_Preflight ==
    /\ cmd = "forcePush" /\ pc = "start"
    /\ \E pf \in PreflightAnswers :
         IF pf # "ok"
         THEN /\ Finish("exit1", FALSE, {"preflight"})
              /\ UNCHANGED <<currentBranch, status>>
         ELSE /\ currentBranch' = head
              /\ status' = getStatus(wt)
              /\ Goto(IF getStatus(wt).hasChanges THEN "commit" ELSE "marker", {})
    /\ UNCHANGED <<forcePushFrame, wt, head, targetBranch, calls>>

\* ForcePushCommand.execute: the tree has changes; offer to commit them all
FP_CommitChanges ==
    /\ cmd = "forcePush" /\ pc = "commit"
    /\ \E shouldCommit \in {"yes", "no", "cancel"}, addOk, typed, commitOk \in BOOLEAN :
         LET asked == <<Call("confirm", "commit all", Answer(shouldCommit = "yes"))>>
             staged == [unc |-> FALSE, stg |-> TRUE, unt |-> FALSE]
         IN IF shouldCommit # "yes"
            THEN /\ calls' = calls \o asked
                 /\ Finish("exit1", FALSE, {"commit or stash first"})
                 /\ UNCHANGED wt
            ELSE IF ~addOk
            THEN /\ calls' = calls \o asked \o <<Call("add", ".", FailPlain)>>
                 /\ Finish("exit1", FALSE, {"stage failed"})
                 /\ UNCHANGED wt
            ELSE IF ~typed
            THEN /\ calls' = calls \o asked \o <<Call("add", ".", Ok)>>
                 /\ wt' = staged
                 /\ Finish("failure", FALSE, {"operation cancelled"})
            ELSE /\ calls' = calls \o asked \o
                        <<Call("add", ".", Ok), Call("commit", "-m", Answer(commitOk))>>
                 /\ wt' = IF commitOk THEN Clean ELSE staged
                 /\ IF commitOk THEN Goto("target", {"committed"})
                    ELSE Finish("exit1", FALSE, {"commit failed"})
    /\ UNCHANGED <<forcePushFrame, head, currentBranch, targetBranch, status>>

\* ForcePushCommand.execute: the tree is clean; offer a marker commit
FP_Marker ==
    /\ cmd = "forcePush" /\ pc = "marker"
    /\ \E shouldCreateMarker, ok \in BOOLEAN :
         calls' = calls \o <<Call("confirm", "marker", Answer(shouldCreateMarker))>> \o
                  (IF shouldCreateMarker
                   THEN <<Call("commit", "--allow-empty", Answer(ok))>> ELSE <<>>)
    /\ Goto("target", {})
    /\ UNCHANGED <<forcePushFrame, wt, head, currentBranch, targetBranch, status>>

\* ForcePushCommand.execute and selectTargetBranch: the target is the
\* argument or the existing main branch the user accepted or the selection
FP_Target ==
    /\ cmd = "forcePush" /\ pc = "target"
    /\ \E typed \in BranchSet \cup {""}, shouldUseDefault \in BOOLEAN,
          selectedBranch \in (BranchSet \ {currentBranch}) \cup {"cancel"} :
         LET existing == ((mainBranches \cup {"dev"}) \cap BranchSet) \ {currentBranch}
             target == IF typed # "" THEN typed
                       ELSE IF existing # {} /\ shouldUseDefault
                       THEN CHOOSE b \in existing : TRUE
                       ELSE selectedBranch
         IN IF target = "cancel"
            THEN /\ Finish("exit1", FALSE, {"operation cancelled"})
                 /\ UNCHANGED targetBranch
            ELSE /\ targetBranch' = target
                 /\ IF target = currentBranch
                    THEN Finish("exit1", FALSE, {"same branch"})
                    ELSE Goto("confirm", {})
    /\ UNCHANGED <<forcePushFrame, wt, head, currentBranch, status, calls>>

\* ForcePushCommand.execute: the first overwrite confirmation
FP_FirstConfirm ==
    /\ cmd = "forcePush" /\ pc = "confirm"
    /\ \E firstConfirm \in {"yes", "no", "cancel"} :
         /\ DoCall(Call("confirm", "overwrite", Answer(firstConfirm = "yes")))
         /\ IF firstConfirm # "yes"
            THEN Finish("failure", FALSE, {"operation cancelled - no changes made"})
            ELSE Goto("confirm2", {})
    /\ UNCHANGED <<forcePushFrame, wt, head, currentBranch, targetBranch, status>>

\* ForcePushCommand.execute: the final overwrite confirmation
FP_FinalConfirm ==
    /\ cmd = "forcePush" /\ pc = "confirm2"
    /\ \E finalConfirm \in {"yes", "no", "cancel"} :
         /\ DoCall(Call("confirm", "final", Answer(finalConfirm = "yes")))
         /\ IF finalConfirm # "yes"
            THEN Finish("failure", FALSE, {"operation cancelled - no changes made"})
            ELSE Goto("push", {})
    /\ UNCHANGED <<forcePushFrame, wt, head, currentBranch, targetBranch, status>>

\* ForcePushCommand.execute: git push --force-with-lease
FP_Push ==
    /\ cmd = "forcePush" /\ pc = "push"
    /\ \E ok \in BOOLEAN :
         /\ DoCall(Call("push", targetBranch, Answer(ok)))
         /\ IF ok THEN Goto("local", {"force push completed"})
            ELSE Finish("exit1", FALSE, {"force push failed"})
    /\ UNCHANGED <<forcePushFrame, wt, head, currentBranch, targetBranch, status>>

\* ForcePushCommand.execute: offer to update the local target branch; the
\* results of the two checkouts are not looked at
FP_UpdateLocal ==
    /\ cmd = "forcePush" /\ pc = "local"
    /\ \E shouldUpdateLocal, there, okTarget, okReset, okBack \in BOOLEAN :
         IF shouldUpdateLocal /\ there
         THEN /\ calls' = calls \o
                    <<Call("checkout", targetBranch, Answer(okTarget)),
                      Call("reset --hard", targetBranch, Answer(okReset))>> \o
                    (IF okReset THEN <<Call("checkout", currentBranch, Answer(okBack))>>
                     ELSE <<>>)
              /\ okReset \/ okBack
              /\ head' = IF okReset /\ okBack THEN currentBranch
                         ELSE IF okTarget THEN targetBranch ELSE head
         ELSE /\ okTarget /\ okReset /\ okBack
              /\ UNCHANGED <<calls, head>>
    /\ Finish("success", FALSE, {})
    /\ UNCHANGED <<forcePushFrame, wt, currentBranch, targetBranch, status>>

ForcePush ==
    \/ FP_Preflight \/ FP_CommitChanges \/ FP_Marker \/ FP_Target
    \/ FP_FirstConfirm \/ FP_FinalConfirm \/ FP_Push \/ FP_UpdateLocal

\* one force-push run over one working copy
SpecForcePush == InitForcePush /\ [][ForcePush]_vars

\* ------------------------------------------------------------------ call discipline
\* every call site awaits the facade method it calls, and a facade method
\* awaits the process it spawns; getStatus and getAllBranches spawn their
\* queries together and await them all
MutatingOps == {"checkout", "stash push", "stash pop", "merge", "rebase"}
QueryOps == {"rev-parse", "stash list"}
StatusQueries == {"diff-index", "diff --cached", "ls-files"}
BranchListings == {"branch", "branch -r"}

facadeFrame == <<cmd, useRebase, clearStashes, force, includeOrphaned, wt, stashList,
                 head, inProgress, currentBranch, targetBranch, status, stashMessage,
                 stashRef, stashCountBefore, behindCount, todo, results, logs,
                 outcome, manual, ext, refs, cached, live, analysis>>

InitFacade ==
    /\ cmd = "facade"
    /\ useRebase = FALSE
    /\ pc = "idle"
    /\ wt = Clean
    /\ stashList = <<>>
    /\ head \in BranchSet
    /\ inProgress = "none"
    /\ currentBranch = ""
    /\ targetBranch = ""
    /\ status = getStatus(Clean)
    /\ stashMessage = <<>>
    /\ stashRef = ""
    /\ stashCountBefore = 0
    /\ behindCount = 0
    /\ todo = <<>>
    /\ results = [failed |-> <<>>, updated |-> <<>>, upToDate |-> <<>>, skipped |-> <<>>]
    /\ calls = <<>>
    /\ logs = {}
    /\ outcome = "running"
    /\ manual = FALSE
    /\ ext = 0
    /\ force = FALSE
    /\ includeOrphaned = FALSE
    /\ refs = [b \in BranchSet |-> b]
    /\ cached = BranchSet
    /\ live = BranchSet
    /\ analysis = NoAnalysis
    /\ clearStashes = FALSE
    /\ inflight = {}

\* F_Call that returns to its caller without awaiting the process
F_Call_NotAwaited ==
    /\ cmd = "facade" /\ pc = "idle"
    /\ Len(calls) + Cardinality(inflight) < MaxCalls
    /\ \E op \in (MutatingOps \cup QueryOps) \ inflight :
         inflight' = inflight \cup {op}
    /\ pc' = "idle"
    /\ UNCHANGED <<facadeFrame, calls>>

\* `await this.git.<method>(...)`: execute spawns one git process
F_Call ==
    /\ cmd = "facade" /\ pc = "idle"
    /\ Len(calls) < MaxCalls
    /\ \E op \in MutatingOps \cup QueryOps :
         inflight' = {op}
    /\ pc' = "await"
    /\ UNCHANGED <<facadeFrame, calls>>

\* `await this.git.getStatus()`: Promise.all over the three status queries
F_GetStatus ==
    /\ cmd = "facade" /\ pc = "idle"
    /\ Len(calls) < MaxCalls
    /\ inflight' = StatusQueries
    /\ pc' = "await"
    /\ UNCHANGED <<facadeFrame, calls>>

\* `await this.git.getAllBranches()`: Promise.all over the two listings
F_GetAllBranches ==
    /\ cmd = "facade" /\ pc = "idle"
    /\ Len(calls) < MaxCalls
    /\ inflight' = BranchListings
    /\ pc' = "await"
    /\ UNCHANGED <<facadeFrame, calls>>

\* a spawned git process exits: `await proc.exited`
F_Exit ==
    /\ cmd = "facade" /\ inflight # {}
    /\ \E op \in inflight, ok \in BOOLEAN :
         /\ inflight' = inflight \ {op}
         /\ DoCall(Call(op, "", Answer(ok)))
    /\ UNCHANGED <<facadeFrame, pc>>

\* the awaited promise is settled: the caller goes on
F_Join ==
    /\ cmd = "facade" /\ pc = "await" /\ inflight = {}
    /\ pc' = "idle"
    /\ UNCHANGED <<facadeFrame, calls, inflight>>

Facade ==
    \/ F_Call \/ F_GetStatus \/ F_GetAllBranches \/ F_Exit \/ F_Join

\* the calls of one run, as the call sites issue and await them
SpecFacade == InitFacade /\ [][Facade]_vars

\* one invocation of a guarded workflow or of prune
SpecAll == (Init \/ InitPrune) /\ [][Next \/ Prune]_vars

\* GitWorkflow.run: the process exit code; the result execute returns is
\* dropped, only process.exit(1) inside a command sets a code
exitCode == IF outcome = "exit1" THEN 1 ELSE 0

\* ------------------------------------------------------------------ observations
Mutations == {"fetch", "checkout", "rebase", "merge"}
CallIdx == 1..Len(calls)
Issued(op) == \E k \in CallIdx : calls[k].op = op
\* the list holds an entry whose line carries this invocation's message
HasMessageEntry(list) ==
    \E i \in 1..Len(list) : includes(StashLine(i, list[i]), stashMessage)
\* this invocation put a save-point on the list
Created == \E k \in CallIdx : calls[k].op = "stash push" /\ calls[k].own
Pops == {k \in CallIdx : calls[k].op = "stash pop"}
RestoreAttempted == Pops # {}
Terminated == pc = "done"
\* the rebase/merge of update, or the final one of merge-from, failed without
\* a conflict
FinalStepFailedPlain ==
    \E k \in CallIdx :
        /\ calls[k].op \in {"rebase", "merge"}
        /\ calls[k].arg = (IF cmd = "update" THEN "upstream" ELSE targetBranch)
        /\ ~calls[k].ok /\ ~calls[k].conflict

\* ------------------------------------------------------------------ claims
\* C1: in every guarded workflow, once the guard decided to create a
\* save-point, the first fetch/checkout/rebase/merge is issued only while the
\* save-point list holds an entry carrying this invocation's message.
C1_MutationOnlyWithSavePoint ==
    [][(/\ cmd \in Guarded
        /\ stashMessage # <<>>
        /\ Len(calls') = Len(calls) + 1
        /\ calls'[Len(calls')].op \in Mutations
        /\ \A k \in CallIdx : calls[k].op \notin Mutations)
       => HasMessageEntry(stashList)]_vars

\* C2: in checkout, when a save-point was created and the checkout call
\* failed, the command has called restore on that save-point by the time it ends.
C2_CheckoutFailureRestores ==
    (/\ IsCheckout /\ Terminated /\ Created
     /\ \E k \in CallIdx : calls[k].op = "checkout" /\ ~calls[k].ok)
    => \E k \in Pops : calls[k].own

\* C3: in update and in the final step of merge-from, when a save-point was
\* created and the rebase/merge fails without a conflict, restore is attempted
\* before the command exits non-zero.
C3_PlainFailureRestores ==
    (/\ cmd \in {"update", "mergeFrom"} /\ Terminated /\ Created
     /\ FinalStepFailedPlain)
    => RestoreAttempted

\* C4: in every guarded workflow, a run that ends after a save-point was
\* created has either attempted the restore or ended in a conflict outcome
\* that tells the user the save-point is still stashed.
C4_NeverLeftUnreported ==
    (cmd \in Guarded /\ Terminated /\ Created)
    => \/ RestoreAttempted
       \/ manual /\ "stash kept hint" \in logs

\* C5: when the status read by the guard has hasChanges = false, the
\* invocation issues no save-point creation and no restore, and leaves the
\* save-point list as it was.
C5_CleanTreeNoOp ==
    [][(cmd \in Guarded /\ ~status'.hasChanges)
       => /\ stashList' = stashList
          /\ \A k \in 1..Len(calls') : calls'[k].op \notin {"stash push", "stash pop"}]_vars

C5_Witness ==
    /\ cmd \in Guarded /\ Terminated /\ outcome = "success"
    /\ ~status.hasChanges
    /\ Issued("fetch") /\ Issued("checkout")

\* C6: in checkout, whenever the status has hasChanges = true (only untracked
\* files included), a save-point is created before the checkout call is issued.
C6_CheckoutGuardsAnyChange ==
    \A k \in CallIdx :
        (IsCheckout /\ status.hasChanges /\ calls[k].op = "checkout")
        => \E j \in 1..(k - 1) : calls[j].op = "stash push" /\ calls[j].own

\* C7: the save-point handed to restore is the one this invocation created,
\* also when other save-points were pushed between guard and restore, in
\* checkout as in update, update-all and merge-from.
C7_RestoreNamesOwnSavePoint ==
    \A k \in Pops : cmd \in Guarded => calls[k].own

\* C8: within one invocation restore is called at most once, on every path of
\* checkout, update, update-all and merge-from.
C8_RestoreAtMostOnce ==
    cmd \in Guarded => Cardinality(Pops) <= 1

C8_Witness ==
    /\ cmd \in Guarded /\ Terminated /\ outcome = "exit1"
    /\ \E k \in Pops : calls[k].own
    /\ \E k \in CallIdx : calls[k].op = "checkout" /\ ~calls[k].ok

\* C9: no guarded workflow drops a save-point: after a restore that did not
\* succeed (conflict included) the created entry is still on the list, and an
\* entry leaves the list only by a successful pop.
C9_NeverDiscarded ==
    cmd \in Guarded =>
      /\ \A k \in CallIdx : calls[k].op \notin {"stash drop", "stash clear"}
      /\ (Created /\ ~\E k \in Pops : calls[k].own /\ calls[k].ok)
           => \E i \in 1..Len(stashList) : stashList[i].own

C9_Witness ==
    /\ cmd \in Guarded /\ Terminated
    /\ \E k \in Pops : calls[k].own /\ calls[k].conflict
    /\ \E i \in 1..Len(stashList) : stashList[i].own

\* C10: in every guarded workflow, when a save-point was created and restoring
\* it failed, the command's outcome is not success.
C10_FailedRestoreNotSuccess ==
    (/\ cmd \in Guarded /\ Terminated /\ Created
     /\ \E k \in Pops : ~calls[k].ok)
    => outcome # "success"

\* C11: in update, when the rebase/merge against upstream fails with a
\* conflict, no abort and no restore is issued, the repository stays in the
\* mid-rebase/merge state, and the command returns failure flagged as
\* requiring manual resolution.
C11_UpdateConflictLeftForUser ==
    (/\ cmd = "update" /\ Terminated
     /\ \E k \in CallIdx : /\ calls[k].op \in {"rebase", "merge"}
                           /\ calls[k].arg = "upstream" /\ calls[k].conflict)
    => /\ \A k \in CallIdx :
            calls[k].op \notin {"rebase --abort", "merge --abort", "stash pop"}
       /\ inProgress = Strategy
       /\ outcome = "failure" /\ manual

\* C12: in update, when the behind-count read after a successful fetch is
\* zero, no rebase or merge is issued, a save-point created by the guard has
\* been handed to restore, and the outcome is success.
C12_UpToDateSkipsAndRestores ==
    (/\ cmd = "update" /\ Terminated /\ behindCount = 0
     /\ \E k \in CallIdx : calls[k].op = "fetch" /\ calls[k].ok)
    => /\ \A k \in CallIdx : calls[k].op \notin {"rebase", "merge"}
       /\ Created => \E k \in Pops : calls[k].own
       /\ outcome = "success"

\* C13: in update-all, a rebase/merge that fails with a conflict is followed
\* by the matching abort before anything else is issued, the branch is
\* recorded as failed, and no rebase or merge is in progress at the next
\* checkout or at the end of the sweep (unless git refused the abort).
C13_ConflictAbortedBeforeNext ==
    cmd = "updateAll" =>
      /\ \A k \in CallIdx :
           (calls[k].op \in {"rebase", "merge"} /\ calls[k].conflict) =>
             /\ k < Len(calls) => calls[k + 1].op = calls[k].op \o " --abort"
             /\ pc # "sweep abort" =>
                  \E i \in 1..Len(results.failed) : results.failed[i][1] = calls[k].arg
      /\ (pc \in {"sweep checkout", "restore", "done"} /\ inProgress # "none")
           => \E k \in CallIdx : calls[k].op = inProgress \o " --abort" /\ ~calls[k].ok

\* C14: in update-all the guard's save-point creation is issued at most once
\* and before the single fetch, every sweep call comes after the fetch, and
\* the only restore is the last call, issued after the sweep and right after
\* the checkout back to the original branch.
C14_GuardFetchOnceRestoreLast ==
    cmd = "updateAll" =>
      /\ \A k \in CallIdx : calls[k].op = "stash push" => k = 1
      /\ Cardinality({k \in CallIdx : calls[k].op = "fetch"}) <= 1
      /\ \A k \in CallIdx :
           calls[k].op \notin {"stash push", "fetch"}
             => \E j \in 1..(k - 1) : calls[j].op = "fetch"
      /\ Cardinality(Pops) <= 1
      /\ \A k \in Pops :
           /\ k = Len(calls) /\ todo = <<>> /\ Terminated
           /\ k > 1 /\ calls[k - 1].op = "checkout"
           /\ calls[k - 1].arg = currentBranch

C14_Witness ==
    /\ cmd = "updateAll" /\ Terminated /\ Pops # {}
    /\ calls[1].op = "stash push"
    /\ \E k \in CallIdx : calls[k].op \in {"rebase", "merge"}

\* C15: in update-all, once the sweep is over every listed local branch is
\* named by exactly one entry of the four result lists, and the command
\* returns success exactly when the failed list is empty.
C15_EveryBranchInOneCategory ==
    (cmd = "updateAll" /\ (pc = "restore" \/ "summary" \in logs)) =>
      /\ \A i \in 1..Len(Branches) :
           Cardinality({c \in (DOMAIN results) \X (1..Len(Branches)) :
                          /\ c[2] <= Len(results[c[1]])
                          /\ results[c[1]][c[2]][1] = Branches[i]}) = 1
      /\ Terminated => /\ outcome \in {"success", "failure"}
                       /\ outcome = "success" <=> results.failed = <<>>

C15_Witness ==
    /\ cmd = "updateAll" /\ Terminated /\ outcome = "failure"
    /\ Len(results.failed) = 1 /\ Len(results.updated) = 1

\* C16: in merge-from, once the update of the current branch from its
\* upstream has failed, no checkout and no merge/rebase involving the source
\* branch is issued in that run.
C16_CurrentUpdateFailureStops ==
    (/\ cmd = "mergeFrom"
     /\ \E k \in CallIdx : /\ calls[k].op = "rebase" /\ calls[k].arg = "upstream"
                           /\ ~calls[k].ok)
    => \A j \in CallIdx :
         /\ calls[j].op # "checkout"
         /\ calls[j].op \in {"rebase", "merge"} => calls[j].arg = "upstream"

C16_Witness ==
    /\ cmd = "mergeFrom" /\ Terminated /\ outcome = "exit1"
    /\ \E k \in CallIdx : /\ calls[k].op = "rebase" /\ calls[k].arg = "upstream"
                          /\ calls[k].conflict
    /\ \E k \in Pops : calls[k].ok

\* C17: in merge-from, when the update of the source branch from its upstream
\* fails, the next call is the checkout of the original branch, a created
\* save-point is then handed to restore, the command ends in failure, and the
\* merge/rebase from the source is never issued.
C17_SourceUpdateFailureRollsBack ==
    \A k \in CallIdx :
      (/\ cmd = "mergeFrom" /\ Terminated
       /\ calls[k].op = "rebase" /\ calls[k].arg = "source upstream" /\ ~calls[k].ok)
      => /\ k < Len(calls) /\ calls[k + 1].op = "checkout"
         /\ calls[k + 1].arg = currentBranch
         /\ Created => (k + 2 = Len(calls) /\ calls[k + 2].op = "stash pop")
         /\ outcome \in {"failure", "exit1"}
         /\ \A j \in CallIdx :
              calls[j].op \in {"rebase", "merge"} => calls[j].arg # targetBranch

\* C18: in merge-from, when the merge/rebase of the source into the current
\* branch fails with a conflict, the command returns failure flagged as
\* requiring manual resolution, issues no restore and no abort, and the entry
\* created by the guard is still on the save-point list.
C18_MergeConflictKeepsSavePoint ==
    (/\ cmd = "mergeFrom" /\ Terminated
     /\ \E k \in CallIdx : /\ calls[k].op \in {"rebase", "merge"}
                           /\ calls[k].arg = targetBranch /\ calls[k].conflict)
    => /\ outcome = "failure" /\ manual
       /\ \A k \in CallIdx :
            calls[k].op \notin {"rebase --abort", "merge --abort", "stash pop"}
       /\ Created => \E i \in 1..Len(stashList) : stashList[i].own

\* the classifier has run
Analysed == cmd = "prune" /\ pc \in {"confirm", "delete", "done"} /\ Issued("fetch")
              /\ calls[1].ok
Names(list) == {list[i] : i \in 1..Len(list)}

\* C19: in every classification run, degraded or not, each local branch the
\* gone-upstream query reported is in the upstream-gone list and not in the
\* stale-tracking list, and the two lists have no branch in common.
C19_GoneNeverStale ==
    Analysed =>
      /\ \A i \in 1..Len(analysis.branchesWithGoneUpstream) :
           /\ analysis.branchesWithGoneUpstream[i].local \in Names(analysis.goneBranches)
           /\ analysis.branchesWithGoneUpstream[i].local \notin Names(analysis.staleBranches)
      /\ Names(analysis.goneBranches) \cap Names(analysis.staleBranches) = {}

\* a degraded run in which a gone branch was also a stale candidate
C19_Witness ==
    /\ Analysed /\ analysis.noConnection
    /\ \E i \in 1..Len(analysis.localBranches) :
         /\ analysis.localBranches[i].local \in Names(analysis.goneBranches)
         /\ ~Has(analysis.remoteBranches, analysis.localBranches[i].remote)

\* C20: in every classification run the stale-tracking, upstream-gone and
\* orphaned lists are pairwise disjoint and name no branch twice, and the list
\* of branches handed to deletion holds no branch twice.
C20_OneCategoryPerBranch ==
    Analysed =>
      /\ Names(analysis.staleBranches) \cap Names(analysis.goneBranches) = {}
      /\ Names(analysis.staleBranches) \cap Names(analysis.orphanedBranches) = {}
      /\ Names(analysis.goneBranches) \cap Names(analysis.orphanedBranches) = {}
      /\ \A b \in LocalNames :
           Cardinality({c \in {"staleBranches", "goneBranches", "orphanedBranches"}
                              \X (1..Len(LocalOrder)) :
                          /\ c[2] <= Len(analysis[c[1]])
                          /\ analysis[c[1]][c[2]] = b}) <= 1
      /\ \A i, j \in 1..Len(todo) : i # j => todo[i] # todo[j]

C20_Witness ==
    /\ Analysed /\ pc = "confirm" /\ includeOrphaned
    /\ Len(analysis.staleBranches) = 1 /\ Len(analysis.goneBranches) = 1
    /\ Len(analysis.orphanedBranches) = 1
    /\ Len(todo) = 3


\* the answer of the read-only query `op` of the classification run
Answered(op) == \E i \in 1..Len(calls) : calls[i].op = op /\ calls[i].ok
\* C21: in the classifier, when the live-remote query answers an empty set
\* and the remote is configured, the run is degraded, stale-tracking is
\* computed against the cached remote-tracking set and the
\* outdated-remote-cache list is empty; when the live answer is non-empty the
\* run is not degraded and stale-tracking is computed against the live set.
C21_DegradedFallsBackToCache ==
    LET rawLive == getRemoteLiveBranches(live, Answered("ls-remote"))
        \* the tracked local branches that are not gone and whose remote is not in S
        staleAgainst(S) ==
            {analysis.localBranches[i].local :
                i \in {k \in 1..Len(analysis.localBranches) :
                         /\ analysis.localBranches[k].local \notin Names(analysis.goneBranches)
                         /\ analysis.localBranches[k].remote \notin S}}
    IN Analysed =>
         /\ (rawLive = <<>> /\ Answered("remote")) =>
               /\ analysis.noConnection
               /\ Names(analysis.staleBranches) = staleAgainst(Names(analysis.remoteBranches))
               /\ analysis.outdatedRemotes = <<>>
         /\ rawLive # <<>> =>
               /\ ~analysis.noConnection
               /\ Names(analysis.staleBranches) = staleAgainst(Names(rawLive))

\* a degraded run in which the cache keeps a tracked branch from being stale
\* while another tracked branch is stale
C21_Witness ==
    /\ Analysed /\ Answered("remote")
    /\ getRemoteLiveBranches(live, Answered("ls-remote")) = <<>>
    /\ analysis.remoteBranches # <<>>
    /\ analysis.staleBranches # <<>>
    /\ \E i \in 1..Len(analysis.localBranches) :
         /\ Has(analysis.remoteBranches, analysis.localBranches[i].remote)
         /\ analysis.localBranches[i].local \notin Names(analysis.staleBranches)


DeleteOps == {"branch -d", "branch -D"}

\* C22: every branch prune attempts to delete is in stale-tracking, in
\* upstream-gone or, only when --include-orphaned was given, in orphaned; a
\* deletion never touches the remote-tracking cache, so no
\* outdated-remote-cache entry is deleted.
C22_DeletesOnlyStaleGoneOptedOrphaned ==
    [][(calls' # calls /\ calls'[Len(calls')].op \in DeleteOps) =>
          /\ calls'[Len(calls')].arg \in
                Names(analysis.staleBranches) \cup Names(analysis.goneBranches) \cup
                (IF includeOrphaned THEN Names(analysis.orphanedBranches) ELSE {})
          /\ ~includeOrphaned =>
                calls'[Len(calls')].arg \notin Names(analysis.orphanedBranches)
          /\ cached' = cached]_vars

\* deletions were issued in a run without the opt-in that found an orphaned
\* branch and an outdated remote-tracking entry
C22_Witness ==
    /\ Analysed /\ ~includeOrphaned
    /\ analysis.orphanedBranches # <<>> /\ analysis.outdatedRemotes # <<>>
    /\ \E k \in CallIdx : calls[k].op \in DeleteOps /\ calls[k].ok

C24_ProtectedNeverDeleted ==
    cmd = "prune" =>
      \A k \in CallIdx :
         calls[k].op \in DeleteOps => calls[k].arg \notin mainBranches \cup {head}

\* C25: when the confirmation of prune is declined or cancelled, no branch
\* deletion call has been issued and the local branches are the ones the run
\* started with.
C25_DeclineDeletesNothing ==
    (cmd = "prune" /\ logs \cap {"cancelled", "pruning cancelled"} # {}) =>
      /\ \A k \in CallIdx : calls[k].op \notin DeleteOps
      /\ DOMAIN refs = LocalNames
      /\ Terminated

\* a declined confirmation with two branches up for deletion
C25_Witness ==
    /\ cmd = "prune" /\ "pruning cancelled" \in logs
    /\ Len(todo) >= 2

\* C26: a declined confirmation in prune or reset ends the command with the
\* outcome success.
C26_DeclineIsSuccess ==
    (cmd \in {"prune", "reset"} /\ logs \cap {"pruning cancelled", "reset cancelled"} # {})
        => outcome = "success"

\* C27: when checkout's branch resolution yields no selection the command
\* reports the cancellation as a failure with no facade call issued and no
\* save-point created, and a save-point is only ever created for a resolved
\* target branch.
C27_ResolutionBeforeGuard ==
    IsCheckout =>
      /\ "cancelled" \in logs =>
            /\ outcome = "failure" /\ Terminated
            /\ calls = <<>>
            /\ ~Created /\ \A i \in 1..Len(stashList) : ~stashList[i].own
      /\ Issued("stash push") => targetBranch \in BranchSet

\* a cancelled resolution of a branch that does not exist, with uncommitted
\* changes in the working tree
C27_Witness ==
    /\ IsCheckout /\ "cancelled" \in logs
    /\ targetBranch \notin BranchSet
    /\ wt.unc

\* C28: the process exit code is 0 exactly when the command's outcome is
\* success, and 1 for a failure, a cancellation or an unresolved conflict,
\* returned or exited.
C28_ExitCodeFollowsOutcome ==
    Terminated => (exitCode = 0 <=> outcome = "success")

\* C29: when a preflight failure is reported the command has terminated and
\* no facade call (save-point creation, fetch, checkout, rebase, merge, branch
\* deletion) has been issued.
C29_PreflightFailsBeforeMutation ==
    "preflight" \in logs =>
      /\ Terminated /\ outcome = "exit1"
      /\ calls = <<>>
      /\ \A i \in 1..Len(stashList) : ~stashList[i].own

\* update's preflight failed over a working tree with uncommitted changes
C29_Witness ==
    /\ cmd = "update" /\ "preflight" \in logs
    /\ wt.unc

\* C30: checkout's save-point verification passes only when the list is
\* exactly one longer than the count taken before creation and its newest
\* entry carries this invocation's message.
C30_VerifyExactlyOneOwnEntry ==
    [][(cmd = "checkout" /\ pc = "verify" /\ pc' = "fetch") =>
          /\ Len(stashList) = stashCountBefore + 1
          /\ includes(StashLine(1, stashList[1]), stashMessage)]_vars


\* C31: in the guard of every workflow the first save-point creation includes
\* untracked files, a second creation is issued exactly when the first
\* failed, it leaves the untracked files out and is the last (at most two
\* attempts); and no failed fetch, checkout, rebase, merge or restore is
\* followed by the same call again.
C31_UntrackedFirstThenOneRetry ==
    cmd \in Guarded =>
      LET pushes == {k \in CallIdx : calls[k].op = "stash push"}
      IN /\ Cardinality(pushes) <= 2
         /\ \A k \in pushes :
              IF \A j \in pushes : j >= k
              THEN calls[k].arg = "--include-untracked"
              ELSE /\ calls[k].arg = ""
                   /\ calls[k - 1].op = "stash push" /\ ~calls[k - 1].ok
         /\ (Terminated /\ \E k \in pushes : ~calls[k].ok) => Cardinality(pushes) = 2
         \* update-all's return to the original branch follows every sweep,
         \* failed or not: it is no retry of the sweep's last checkout
         /\ \A k \in CallIdx :
              (/\ k < Len(calls)
               /\ calls[k].op \in Mutations \cup {"stash pop"}
               /\ ~calls[k].ok
               /\ ~(cmd = "updateAll" /\ calls[k + 1].op = "checkout"
                                      /\ calls[k + 1].arg = currentBranch))
                 => ~(calls[k + 1].op = calls[k].op /\ calls[k + 1].arg = calls[k].arg)


\* C33: a failed rebase/merge of update, update-all or merge-from whose
\* output carries a conflict marker, on stdout or on stderr, is handled as a
\* conflict (manual resolution in update and merge-from, abort in
\* update-all), and one without a marker as a plain failure.
C33_ConflictMarkerEitherStream ==
    \A k \in CallIdx :
       (calls[k].op \in {"rebase", "merge"} /\ ~calls[k].ok) =>
          /\ (cmd = "update" /\ calls[k].arg = "upstream") =>
                IF calls[k].conflict THEN outcome = "failure" /\ manual
                ELSE outcome = "exit1"
          /\ (cmd = "mergeFrom" /\ calls[k].arg = targetBranch /\ k = Len(calls)) =>
                IF calls[k].conflict THEN outcome = "failure" /\ manual
                ELSE outcome = "exit1"
          /\ cmd = "updateAll" =>
                IF calls[k].conflict
                THEN IF k < Len(calls) THEN calls[k + 1].op = calls[k].op \o " --abort"
                     ELSE pc = "sweep abort"
                ELSE /\ k < Len(calls) => calls[k + 1].op # calls[k].op \o " --abort"
                     /\ pc # "sweep abort" \/ k < Len(calls)


\* C34: in checkout a failed fetch does not keep the checkout from being
\* issued; once the checkout succeeded the command ends in success with the
\* restore of a created save-point attempted, whether the fast-forward
\* succeeded or failed; and a fast-forward is only issued right after the
\* remote-tracking branch of the target was found.
C34_FetchAndFastForwardNonFatal ==
    IsCheckout =>
      /\ (Terminated /\ \E k \in CallIdx : calls[k].op = "fetch" /\ ~calls[k].ok)
            => Issued("checkout")
      /\ (Terminated /\ \E k \in CallIdx : calls[k].op = "checkout" /\ calls[k].ok)
            => /\ outcome = "success"
               /\ Created => RestoreAttempted
      /\ \A k \in CallIdx :
            calls[k].op = "merge --ff-only" =>
               /\ k > 1 /\ calls[k - 1].op = "show-ref" /\ calls[k - 1].ok
               /\ calls[k - 1].arg = targetBranch /\ calls[k].arg = targetBranch


\* C36: in update, update-all and merge-from, a restore step that ends the
\* command without a restore call although the guard generated a save-point
\* message (findStash resolved nothing) reports a warning, or ends update
\* and merge-from in a result other than success.
C36_UnresolvedSavePointSurfaced ==
    [][(/\ cmd \in {"update", "updateAll", "mergeFrom"}
        /\ pc \in {"restore", "uptodate"} /\ pc' = "done"
        /\ stashMessage # <<>> /\ calls' = calls)
         => \/ (logs' \ logs) \cap {"restore failed", "manual restore hint",
                                    "stash kept hint"} # {}
            \/ cmd # "updateAll" /\ outcome' # "success"]_vars


\* C37: in update-all and merge-from every restore call is issued while the
\* checked-out branch is the original branch, the one the save-point was
\* taken on.
C37_RestoreOnOriginalBranch ==
    [][(/\ cmd \in {"updateAll", "mergeFrom"}
        /\ Len(calls') = Len(calls) + 1
        /\ calls'[Len(calls')].op = "stash pop")
         => head = currentBranch]_vars


\* C38: merge-from never issues a merge/rebase whose source is the current
\* branch, and checkout never creates a save-point nor issues a checkout
\* while its resolved target is the current branch.
C38_ResolvedBranchDiffers ==
    /\ cmd = "mergeFrom" =>
         \A k \in CallIdx :
            calls[k].op \in {"rebase", "merge"} => calls[k].arg # currentBranch
    /\ IsCheckout =>
         \A k \in CallIdx :
            calls[k].op \in {"stash push", "checkout"} => targetBranch # currentBranch


\* C35: reset --clear-stashes, once the list was read, drops exactly the
\* save-points whose listed line mentions the current branch: after the loop
\* the list is the old list without those entries, in the old order.
C35_ClearDropsExactlyBranchStashes ==
    [][(/\ cmd = "reset" /\ pc = "clear" /\ clearStashes
        /\ Len(calls') > Len(calls)
        /\ calls'[Len(calls) + 1].ok)
         => LET keep == SelectSeq([i \in 1..Len(stashList) |-> i],
                                  LAMBDA i : ~includes(StashLine(i, stashList[i]),
                                                       <<currentBranch>>))
            IN stashList' = [k \in 1..Len(keep) |-> stashList[keep[k]]]]_vars


\* C39: as long as a gate of reset has not been passed (the confirmation
\* answered yes and, on a protected branch, the --force flag and the second
\* confirmation answered yes), no step of reset changes the working tree, the
\* save-point list, the branch or the operation in progress, and no
\* destructive call (rebase/merge abort, stash drop, hard reset, clean) has
\* been issued.
C39_ResetGated ==
    [][(/\ cmd = "reset"
        /\ ~(/\ \E k \in 1..Len(calls') :
                  calls'[k].op = "confirm" /\ calls'[k].arg = "sure" /\ calls'[k].ok
             /\ head \in protectedBranches =>
                  /\ force
                  /\ \E k \in 1..Len(calls') :
                       /\ calls'[k].op = "confirm"
                       /\ calls'[k].arg = "really sure"
                       /\ calls'[k].ok))
         => /\ UNCHANGED <<wt, stashList, head, inProgress>>
            /\ \A k \in 1..Len(calls') : calls'[k].op \notin Destructive]_vars

\* reset --force on main, confirmed once and declined at the second
\* confirmation, over a dirty tree with save-points
C39_Witness ==
    /\ cmd = "reset" /\ head = "main" /\ force
    /\ pc = "done" /\ "reset cancelled" \in logs
    /\ Len(calls) = 2 /\ calls[1].ok /\ ~calls[2].ok
    /\ wt.unc /\ stashList # <<>> /\ inProgress = "rebase"


\* C40: when force-push reported "Operation cancelled - no changes made", no
\* add, commit or push of this run succeeded and the working tree is the one
\* the command found when it started.
C40_CancelledMeansNoChanges ==
    (cmd = "forcePush" /\ "operation cancelled - no changes made" \in logs)
      => /\ \A k \in CallIdx : calls[k].op \in {"add", "commit", "push"} => ~calls[k].ok
         /\ getStatus(wt) = status


\* C32: at most one mutating call is in flight at any time; calls are in
\* flight together only when they are the status queries or the branch
\* listings; and when the caller is ready to issue its next call, nothing is
\* in flight.
C32_MutatingCallsSerialized ==
    /\ Cardinality(inflight \cap MutatingOps) <= 1
    /\ Cardinality(inflight) > 1 =>
         inflight \subseteq StatusQueries \/ inflight \subseteq BranchListings
    /\ (cmd = "facade" /\ pc = "idle") => inflight = {}

\* a mutating call is in flight after the two branch listings, issued
\* together, have both exited
C32_Witness ==
    /\ cmd = "facade"
    /\ Len(calls) = 2 /\ \A k \in CallIdx : calls[k].op \in BranchListings
    /\ inflight \cap MutatingOps # {}

====
